---------------------------- MODULE Spec2Model ----------------------------
(***************************************************************************)
(* A model of the wgsl_bindgen preprocessor and reflection passes.         *)
(*                                                                         *)
(*   - the symbolic binding allocator, the closure handed to               *)
(*     fully_preprocess by generate_naga_module_for_source                 *)
(*     (bindgen/bindgen.rs);                                               *)
(*   - get_bind_group_data (generate/bind_group/mod.rs);                   *)
(*   - preprocess_resolve_imports_recursively (lib.rs);                    *)
(*   - preprocess_resolve_ifdefs_implementation (lib.rs);                  *)
(*   - generate_output over several shaders (bindgen/bindgen.rs);          *)
(*   - buffer_binding_type and vertex_format (wgsl.rs);                    *)
(*   - structs_items (structs.rs);                                         *)
(*   - pipeline_overridable_constants (generate/consts.rs).                *)
(*                                                                         *)
(* Each pass has its own specification over the shared variable list; the  *)
(* variables of the passes a specification does not run keep their         *)
(* initial values.                                                         *)
(***************************************************************************)
EXTENDS Integers, Sequences, FiniteSets, TLC

VARIABLES
    \* generate_naga_module_for_source: the state captured by the closure
    group_n,        \* bindgen.rs:25  let mut group_n = 0
    encountered,    \* bindgen.rs:26  label -> <<group, next binding>>
    calls,          \* history: the <<label, group, binding>> of every call
    \* preprocess_resolve_ifdefs_implementation
    lines_read,     \* the lines src.lines() has yielded so far
    depth,          \* lib.rs:332
    should_skip,    \* lib.rs:333
    defs,           \* the DefineTable: key -> replacement text
    output,         \* lib.rs:328, one entry per line written
    ifdef_seen,     \* the keys handed to the encountered_ifdef observer
    before,         \* history: depth, should_skip and defs before each line
    panicked,       \* the panic!() of lib.rs:424 was reached
    \* get_bind_group_data
    global_variables,   \* module.global_variables: the binding of each global
    global_handle,      \* the position of the iterator of mod.rs:467
    groups,             \* mod.rs:465: group index -> the binding indices pushed
    result,             \* <<what is returned, binding>>, "running" until then
    \* preprocess_resolve_imports
    import_src,         \* the text handed to the first run
    has_lookup,         \* get_source_of_file_name is Some
    files,              \* get_source_of_file_name: name -> the text it returns
    stack,              \* the active calls of preprocess_resolve_imports_recursively
    runs,               \* the texts returned by the runs completed so far
    deepest_read,       \* history: the largest depth at which a line was read
    \* wgsl.rs
    storage,            \* the argument of buffer_binding_type
    binding_type,       \* what buffer_binding_type returned
    ty,                 \* the argument of vertex_format
    format,             \* what vertex_format returned
    \* structs.rs
    naga_module,            \* module: types, global_variables, entry_points
    type_map,               \* options.type_map: the structs with a custom mapping
    globals_visited,        \* the position of the loop of structs.rs:14
    global_variable_types,  \* structs.rs:13
    struct_items,           \* <<returned, the <<struct, is_host_sharable>> built>>
    \* generate/consts.rs
    overrides,          \* module.overrides, each with the value the caller supplies
    generated,          \* <<generated, required_entries, insert_optional_entries>>
    entries,            \* <<returned, the map OverrideConstants::constants returns>>
    \* structs.rs, add_types_recursive step by step
    walk_arena,         \* module.types of the walk
    walk_stack,         \* the active calls: the type of each and its next member
    walk_types,         \* types: the set the calls insert into
    walk_status,        \* "idle", "running", "returned" or "overflow"
    \* generate/bind_group/mod.rs
    group_binding,      \* binding: the GroupBinding handed to bind_group_layout_entry
    layout_entry,       \* the binding type of the entry it returned, or its panic
    \* wgsl.rs get_vertex_input_structs and generate/entry.rs vertex_states
    vertex_module,      \* module: types and entry_points
    vertex_inputs,      \* what get_vertex_input_structs returned
    vertex_entries,     \* the vertex entry functions vertex_states generated
    \* preprocess_resolve_ifdefs and generate_output
    ifdef_result,       \* <<returned, resulting_depth, the warning was printed>>
    all_shaders,        \* bindgen.rs:103: the source of each shader
    shader_pos,         \* the shader generate_naga_module_for_source is called on
    entry_results       \* bindgen.rs:107: the preprocessed source of each shader

bindingVars == <<group_n, encountered, calls>>
ifdefVars == <<lines_read, depth, should_skip, defs, output, ifdef_seen, before, panicked>>

groupVars == <<global_variables, global_handle, groups, result>>

importVars == <<import_src, has_lookup, files, stack, runs, deepest_read>>

\* the variables of the reflection helpers
wgslVars == <<storage, binding_type, ty, format>>

structVars == <<naga_module, type_map, globals_visited, global_variable_types, struct_items>>

constVars == <<overrides, generated, entries>>

walkVars == <<walk_arena, walk_stack, walk_types, walk_status>>

layoutVars == <<group_binding, layout_entry>>

vertexVars == <<vertex_module, vertex_inputs, vertex_entries>>

shapeVars == <<walkVars, layoutVars, vertexVars>>

reflectVars == <<wgslVars, structVars, constVars, shapeVars>>

callVars == <<ifdef_result, all_shaders, shader_pos, entry_results>>

vars == <<group_n, encountered, calls,
          lines_read, depth, should_skip, defs, output, ifdef_seen, before, panicked,
          global_variables, global_handle, groups, result,
          import_src, has_lookup, files, stack, runs, deepest_read,
          storage, binding_type, ty, format,
          naga_module, type_map, globals_visited, global_variable_types, struct_items,
          overrides, generated, entries,
          walk_arena, walk_stack, walk_types, walk_status,
          group_binding, layout_entry,
          vertex_module, vertex_inputs, vertex_entries,
          ifdef_result, all_shaders, shader_pos, entry_results>>

(***************************************************************************)
(* Bounds of the model.                                                    *)
(***************************************************************************)
\* lines of a source read by a run that exercises the symbolic bindings
MaxBindingLines == 5
\* lines of a source read by a run that exercises the conditionals
MaxIfdefLines == 4
\* lines of a source read by a run that exercises nested conditionals
MaxNestedLines == 5
\* types of a module whose handles may refer to any type of the module
MaxWalkTypes == 2
\* entry points of a module
MaxEntryPoints == 2
\* global variables of a module
MaxGlobals == 4
\* lines of a source handed to preprocess_resolve_imports
MaxSourceLines == 2
\* lines of the source of a shader handed to generate_output
MaxModuleLines == 2
\* types of the arena of a module
MaxTypes == 3
\* pipeline-overridable constants of a module
MaxOverrides == 2
\* the const generic MAX_RECURSION of preprocess_resolve_imports_recursively;
\* preprocess_resolve_imports instantiates it with 100 (lib.rs:206)
MAX_RECURSION == 2

(***************************************************************************)
(* Text.  A line is the sequence of its whitespace-separated tokens; a     *)
(* token is <<tag, text, group, binding>>:                                 *)
(*   "w"    a word, e.g. #ifdef, A, var                                    *)
(*   "gb"   @group_binding(text)                                           *)
(*   "gbsp" @group_binding( text ), the label padded with blanks           *)
(*   "res"  @group(group) @binding(binding)                                *)
(***************************************************************************)
Word(s)        == <<"w", s, 0, 0>>
Gb(label)      == <<"gb", label, 0, 0>>
GbSpaced(label) == <<"gbsp", label, 0, 0>>
Resolved(g, b) == <<"res", "", g, b>>

Tag(tok)  == tok[1]
Text(tok) == tok[2]

\* the empty HashMap
EmptyMap == [k \in {} |-> ""]

\* HashMap::insert / the write of an entry
MapPut(m, k, v) == [x \in (DOMAIN m) \cup {k} |-> IF x = k THEN v ELSE m[x]]

\* HashMap::remove
MapRemove(m, k) == [x \in (DOMAIN m) \ {k} |-> m[x]]

(***************************************************************************)
(* Import resolution (lib.rs:202-208, 235-316).                            *)
(*                                                                         *)
(* A text is the sequence of its raw lines [toks, cr, nl]: the tokens, the *)
(* number of carriage returns that follow them, and whether a line feed    *)
(* ends the line (only the last line of a text may lack it).               *)
(***************************************************************************)
RawLine(toks, cr, nl) == [toks |-> toks, cr |-> cr, nl |-> nl]

\* the name of an import: "name", <name> or the bare name
Quoted(name) == <<"quoted", name, 0, 0>>
Angled(name) == <<"angled", name, 0, 0>>

\* src.lines(): BufRead::lines drops the line feed and, when there was one,
\* one carriage return before it; what is left of the line keeps its others
LinesOf(text) ==
    [i \in 1..Len(text) |->
        [toks |-> text[i].toks,
         cr   |-> IF text[i].nl /\ text[i].cr > 0 THEN text[i].cr - 1 ELSE text[i].cr]]

\* A push of the line that leaves the line feed out.
PushLineNoLineFeed(line) == RawLine(line.toks, line.cr, FALSE)

\* output.push_str(&line); output.push('\n')
PushLine(line) == RawLine(line.toks, line.cr, TRUE)

\* An import pass that resolves `#include` alone.
IsIncludeOnly(line) ==
    /\ Len(line.toks) > 0
    /\ Tag(line.toks[1]) = "w"
    /\ Text(line.toks[1]) = "#include"

\* line_trimmed.starts_with('#') and op is "import" | "include"
IsImport(line) ==
    /\ Len(line.toks) > 0
    /\ Tag(line.toks[1]) = "w"
    /\ Text(line.toks[1]) \in {"#import", "#include"}

\* rest.next() after the op
HasName(line) == Len(line.toks) >= 2

\* strip_prefix('"'), strip_suffix('"'), strip_prefix('<'), strip_suffix('>')
ShaderName(line) == Text(line.toks[2])

NoFile == [present |-> FALSE, text |-> <<>>]
File(text) == [present |-> TRUE, text |-> text]

\* get_shader_source(shader_name.into()), None when no function was supplied
Lookup(name) ==
    IF has_lookup /\ name \in DOMAIN files THEN files[name] ELSE NoFile

\* "// END #import '{shader_name}'\n"
EndMarker(line) == RawLine(<<Word("// END #import"), Word(ShaderName(line))>>, 0, TRUE)

\* A failure that leaves the directive line in the output as it is.
ErrorMarkerVerbatim(line) == RawLine(line.toks, 0, TRUE)

\* "// {line_trimmed} // ERROR: Preprocessor could not include file, skipped\n"
ErrorMarker(line) ==
    RawLine(<<Word("//")>> \o line.toks
               \o <<Word("// ERROR: Preprocessor could not include file, skipped")>>,
            0, TRUE)

\* A begin marker that is not a comment: the directive line comes first.
BeginMarkerUncommented(line) ==
    RawLine(line.toks \o <<Word("// BEGIN #import"), Word(ShaderName(line))>>, 0, TRUE)

\* "// {line_trimmed} // BEGIN #import '{shader_name}'\n"
BeginMarker(line) ==
    RawLine(<<Word("//")>> \o line.toks \o <<Word("// BEGIN #import"), Word(ShaderName(line))>>,
            0, TRUE)

\* a call of preprocess_resolve_imports_recursively: the lines of its source,
\* the index of the next line to read, its depth, its output, and (history)
\* the length of the output after each line read
Frame(text, d) ==
    [all |-> LinesOf(text), pos |-> 1, depth |-> d, out |-> <<>>, cuts |-> <<>>]

Top == stack[Len(stack)]

Pop == SubSeq(stack, 1, Len(stack) - 1)

SetTop(frame) == [stack EXCEPT ![Len(stack)] = frame]

\* the caller continues after the recursive call for its last line read
\* returned `text` (lib.rs:288-295)
Resume(caller, text) ==
    LET line == caller.all[caller.pos - 1]
        out2 == caller.out \o <<BeginMarker(line)>> \o text \o <<EndMarker(line)>>
    IN  [caller EXCEPT !.out = out2, !.cuts = Append(caller.cuts, Len(out2))]

\* what a completed run returns, with the cuts of its outermost call
RunResult(frame, text) == [out |-> text, cuts |-> frame.cuts]

\* A guard that never cuts the recursion off.
TooDeepNever(d) == FALSE

\* depth > MAX_RECURSION, lib.rs:246
TooDeep(d) == d > MAX_RECURSION

\* the pass is not run
ImportIdle ==
    /\ import_src = <<>>
    /\ has_lookup = FALSE
    /\ files = EmptyMap
    /\ stack = <<>>
    /\ runs = <<>>
    /\ deepest_read = 0

\* One iteration of the loop of lib.rs:251-313 in the innermost call.
ReadLine ==
    /\ stack # <<>>
    /\ ~TooDeep(Top.depth)
    /\ Top.pos <= Len(Top.all)
    /\ LET line == Top.all[Top.pos]
           rest == [Top EXCEPT !.pos = Top.pos + 1]
       IN  IF IsImport(line)
           THEN IF HasName(line) /\ Lookup(ShaderName(line)).present
                THEN stack' = Append(SetTop(rest),
                                     Frame(Lookup(ShaderName(line)).text, Top.depth + 1))
                ELSE stack' = SetTop([rest EXCEPT
                                        !.out = Append(rest.out, ErrorMarker(line)),
                                        !.cuts = Append(rest.cuts, Len(rest.out) + 1)])
           ELSE stack' = SetTop([rest EXCEPT
                                   !.out = Append(rest.out, PushLine(line)),
                                   !.cuts = Append(rest.cuts, Len(rest.out) + 1)])
    /\ deepest_read' = IF Top.depth > deepest_read THEN Top.depth ELSE deepest_read
    /\ UNCHANGED <<import_src, has_lookup, files, runs,
                   bindingVars, ifdefVars, groupVars, reflectVars, callVars>>

\* The return of lib.rs:246-249: a call entered beyond the maximum returns "".
CutOff ==
    /\ stack # <<>>
    /\ TooDeep(Top.depth)
    /\ IF Len(stack) = 1
       THEN /\ stack' = <<>>
            /\ runs' = Append(runs, RunResult(Top, <<>>))
       ELSE /\ stack' = [Pop EXCEPT ![Len(stack) - 1] = Resume(stack[Len(stack) - 1], <<>>)]
            /\ UNCHANGED runs
    /\ UNCHANGED <<import_src, has_lookup, files, deepest_read,
                   bindingVars, ifdefVars, groupVars, reflectVars, callVars>>

\* The return of lib.rs:315: the lines are exhausted.
ReturnOutput ==
    /\ stack # <<>>
    /\ ~TooDeep(Top.depth)
    /\ Top.pos > Len(Top.all)
    /\ IF Len(stack) = 1
       THEN /\ stack' = <<>>
            /\ runs' = Append(runs, RunResult(Top, Top.out))
       ELSE /\ stack' = [Pop EXCEPT ![Len(stack) - 1] = Resume(stack[Len(stack) - 1], Top.out)]
            /\ UNCHANGED runs
    /\ UNCHANGED <<import_src, has_lookup, files, deepest_read,
                   bindingVars, ifdefVars, groupVars, reflectVars, callVars>>

\* preprocess_resolve_imports is called again, on the text it returned.
RunAgain ==
    /\ stack = <<>>
    /\ Len(runs) = 1
    /\ stack' = <<Frame(runs[1].out, 0)>>
    /\ UNCHANGED <<import_src, has_lookup, files, runs, deepest_read,
                   bindingVars, ifdefVars, groupVars, reflectVars, callVars>>

(***************************************************************************)
(* wgsl.rs: buffer_binding_type and vertex_format.                         *)
(* An address space is [space, access], access the set of the flags of     *)
(* naga::StorageAccess; a type is [inner, size, kind, width]; a vertex     *)
(* format is <<kind, bits of a component, components>>, Sint16x4 being     *)
(* <<"Sint", 16, 4>>.                                                      *)
(***************************************************************************)
AddressSpace(space, access) == [space |-> space, access |-> access]

\* no call yet
NotCalled == <<"none", FALSE>>

\* the todo!() arms: the call panics
Todo == <<"todo!", FALSE>>

Uniform == <<"Uniform", FALSE>>

StorageBinding(read_only) == <<"Storage", read_only>>

\* read_only decided by the LOAD flag, the flag the source reads and ignores
BufferBindingTypeByLoad(space) ==
    IF space.space = "Uniform" THEN Uniform
    ELSE IF space.space = "Storage"
         THEN StorageBinding("LOAD" \in space.access)
         ELSE Todo

\* wgsl.rs:19-35
buffer_binding_type(space) ==
    IF space.space = "Uniform" THEN Uniform
    ELSE IF space.space = "Storage"
         THEN LET is_write == "STORE" \in space.access
              IN  IF is_write THEN StorageBinding(FALSE) ELSE StorageBinding(TRUE)
         ELSE Todo

Type(inner, size, kind, width) ==
    [inner |-> inner, size |-> size, kind |-> kind, width |-> width]

NoFormat == <<"none", 0, 0>>

TodoFormat == <<"todo!", 0, 0>>

\* the arms of `match (scalar.kind, scalar.width)` for a scalar, wgsl.rs:40-46
ScalarFormat(kind, width) ==
    CASE kind = "Sint"  /\ width = 4 -> <<"Sint", 32, 1>>
      [] kind = "Uint"  /\ width = 4 -> <<"Uint", 32, 1>>
      [] kind = "Float" /\ width = 4 -> <<"Float", 32, 1>>
      [] kind = "Float" /\ width = 8 -> <<"Float", 64, 1>>
      [] OTHER -> TodoFormat

\* VectorSize::Bi, wgsl.rs:48-58
BiFormat(kind, width) ==
    CASE kind = "Sint"  /\ width = 1 -> <<"Sint", 8, 2>>
      [] kind = "Uint"  /\ width = 1 -> <<"Uint", 8, 2>>
      [] kind = "Sint"  /\ width = 2 -> <<"Sint", 16, 2>>
      [] kind = "Uint"  /\ width = 2 -> <<"Uint", 16, 2>>
      [] kind = "Uint"  /\ width = 4 -> <<"Uint", 32, 2>>
      [] kind = "Sint"  /\ width = 4 -> <<"Sint", 32, 2>>
      [] kind = "Float" /\ width = 4 -> <<"Float", 32, 2>>
      [] kind = "Float" /\ width = 8 -> <<"Float", 64, 2>>
      [] OTHER -> TodoFormat

\* Three components of width 1 or 2 given a format like two and four.
TriFormatNarrow(kind, width) ==
    IF kind \in {"Sint", "Uint"} /\ width \in {1, 2}
    THEN <<kind, 8 * width, 3>>
    ELSE IF (kind \in {"Sint", "Uint"} /\ width = 4) \/ (kind = "Float" /\ width \in {4, 8})
         THEN <<kind, 8 * width, 3>>
         ELSE TodoFormat

\* VectorSize::Tri, wgsl.rs:59-65
TriFormat(kind, width) ==
    CASE kind = "Uint"  /\ width = 4 -> <<"Uint", 32, 3>>
      [] kind = "Sint"  /\ width = 4 -> <<"Sint", 32, 3>>
      [] kind = "Float" /\ width = 4 -> <<"Float", 32, 3>>
      [] kind = "Float" /\ width = 8 -> <<"Float", 64, 3>>
      [] OTHER -> TodoFormat

\* VectorSize::Quad, wgsl.rs:66-76
QuadFormat(kind, width) ==
    CASE kind = "Sint"  /\ width = 1 -> <<"Sint", 8, 4>>
      [] kind = "Uint"  /\ width = 1 -> <<"Uint", 8, 4>>
      [] kind = "Sint"  /\ width = 2 -> <<"Sint", 16, 4>>
      [] kind = "Uint"  /\ width = 2 -> <<"Uint", 16, 4>>
      [] kind = "Uint"  /\ width = 4 -> <<"Uint", 32, 4>>
      [] kind = "Sint"  /\ width = 4 -> <<"Sint", 32, 4>>
      [] kind = "Float" /\ width = 4 -> <<"Float", 32, 4>>
      [] kind = "Float" /\ width = 8 -> <<"Float", 64, 4>>
      [] OTHER -> TodoFormat

\* wgsl.rs:37-80
vertex_format(t) ==
    CASE t.inner = "Scalar" -> ScalarFormat(t.kind, t.width)
      [] t.inner = "Vector" ->
            (CASE t.size = 2 -> BiFormat(t.kind, t.width)
               [] t.size = 3 -> TriFormat(t.kind, t.width)
               [] t.size = 4 -> QuadFormat(t.kind, t.width))
      [] OTHER -> TodoFormat

\* the values of naga::AddressSpace
AddressSpaces ==
    {AddressSpace(sp, {}) :
        sp \in {"Function", "Private", "WorkGroup", "Uniform", "Handle", "PushConstant"}}
    \cup {AddressSpace("Storage", access) : access \in SUBSET {"LOAD", "STORE", "ATOMIC"}}

ScalarKinds == {"Sint", "Uint", "Float", "Bool"}

Widths == {1, 2, 4, 8}

\* scalars, vectors of two to four components, and types of other shapes
Types ==
    {Type("Scalar", 1, kind, width) : kind \in ScalarKinds, width \in Widths}
    \cup {Type("Vector", size, kind, width) :
             size \in 2..4, kind \in ScalarKinds, width \in Widths}
    \cup {Type("Matrix", 2, "Float", 4), Type("Struct", 0, "Float", 4)}

\* the helpers of wgsl.rs are not called
WgslIdle ==
    /\ storage = AddressSpace("Uniform", {})
    /\ binding_type = NotCalled
    /\ ty = Type("Scalar", 1, "Float", 4)
    /\ format = NoFormat

WgslInit ==
    /\ storage \in AddressSpaces
    /\ binding_type = NotCalled
    /\ ty \in Types
    /\ format = NoFormat

\* a call of buffer_binding_type(storage)
CallBufferBindingType ==
    /\ binding_type = NotCalled
    /\ binding_type' = buffer_binding_type(storage)
    /\ UNCHANGED <<storage, ty, format, structVars, constVars, shapeVars,
                   bindingVars, ifdefVars, groupVars, importVars, callVars>>

\* a call of vertex_format(&ty)
CallVertexFormat ==
    /\ format = NoFormat
    /\ format' = vertex_format(ty)
    /\ UNCHANGED <<storage, binding_type, ty, structVars, constVars, shapeVars,
                   bindingVars, ifdefVars, groupVars, importVars, callVars>>

(***************************************************************************)
(* structs.rs: structs_items.  A type of the arena module.types is         *)
(* [inner, bases]: bases holds the base of a pointer, array or binding     *)
(* array and the member types of a struct, as handles (positions) of the   *)
(* arena; a type refers to earlier handles only.                           *)
(***************************************************************************)
NagaType(inner, bases) == [inner |-> inner, bases |-> bases]

\* no type: an entry point without argument or result
NoType == 0

EntryPoint(argument, res) == [argument |-> argument, result |-> res]

\* A walk that stops at the type of the global variable.
AddTypeOnly(types, arena, h) == types \cup {h}

RECURSIVE add_types_recursive(_, _, _)
RECURSIVE AddMembers(_, _, _, _)
\* the loop of structs.rs:111-113 from member i on
AddMembers(types, arena, members, i) ==
    IF i > Len(members) THEN types
    ELSE AddMembers(add_types_recursive(types, arena, members[i]), arena, members, i + 1)

\* structs.rs:100-118
add_types_recursive(types, arena, h) ==
    LET inserted == types \cup {h} IN
    CASE arena[h].inner \in {"Pointer", "Array", "BindingArray"}
            -> add_types_recursive(inserted, arena, arena[h].bases[1])
      [] arena[h].inner = "Struct" -> AddMembers(inserted, arena, arena[h].bases, 1)
      [] OTHER -> inserted

\* the filter of structs.rs:23-37
Kept(m, gvt, h) ==
    \/ /\ ~(\E e \in m.entry_points : e.result = h)
       /\ \E e \in m.entry_points : e.argument = h
    \/ h \in gvt

\* structs.rs:82: is_host_sharable
IsHostSharable(gvt, h) == h \in gvt

\* the flat_map of structs.rs:38-61 with rust_struct: the structs built
StructsBuilt(m, gvt, mapped) ==
    {<<h, IsHostSharable(gvt, h)>> :
        h \in {t \in 1..Len(m.types) :
                  /\ Kept(m, gvt, t)
                  /\ m.types[t].inner = "Struct"
                  /\ t \notin mapped}}

NotReturned == <<FALSE, {}>>

\* structs_items is not called
StructIdle ==
    /\ naga_module = [types |-> <<>>, global_variables |-> <<>>, entry_points |-> {}]
    /\ type_map = {}
    /\ globals_visited = 0
    /\ global_variable_types = {}
    /\ struct_items = NotReturned

(***************************************************************************)
(* generate/consts.rs: pipeline_overridable_constants and the function     *)
(* OverrideConstants::constants it generates.  An override is              *)
(* [name, id, init, bool, supplied, flag, number]: id is <<present, n>>,   *)
(* init says that it has a default, bool that its type is a bool scalar;   *)
(* the field of OverrideConstants holds `flag` for a bool and `number`     *)
(* for another scalar, and is Some for an optional one when `supplied`.    *)
(***************************************************************************)
\* The key taken from the name alone.
OverrideKeyName(o) == o.name

\* consts.rs:145-149
override_key(o) == IF o.id[1] THEN ToString(o.id[2]) ELSE o.name

\* the value expression of consts.rs:78-82 and 99-103, evaluated
ValueAsF64(o) ==
    IF o.bool THEN (IF o.flag THEN 1 ELSE 0) ELSE o.number

RECURSIVE RequiredEntries(_, _)
\* consts.rs:66-87: the entries of the overrides without init, from i on
RequiredEntries(os, i) ==
    IF i > Len(os) THEN <<>>
    ELSE (IF os[i].init THEN <<>> ELSE <<[key |-> override_key(os[i]), of |-> i]>>)
            \o RequiredEntries(os, i + 1)

RECURSIVE InsertOptionalEntries(_, _)
\* consts.rs:91-116: the conditional inserts of the overrides with init
InsertOptionalEntries(os, i) ==
    IF i > Len(os) THEN <<>>
    ELSE (IF os[i].init THEN <<[key |-> override_key(os[i]), of |-> i]>> ELSE <<>>)
            \o InsertOptionalEntries(os, i + 1)

RECURSIVE MapFrom(_, _, _, _)
\* HashMap::from([required_entries]), consts.rs:119-121: the entries are
\* inserted in their order
MapFrom(map, req, os, i) ==
    IF i > Len(req) THEN map
    ELSE MapFrom(MapPut(map, req[i].key, ValueAsF64(os[req[i].of])), req, os, i + 1)

RECURSIVE InsertAll(_, _, _, _)
\* the generated `if let Some(value) = self.name { entries.insert(..) }`
InsertAll(map, opt, os, i) ==
    IF i > Len(opt) THEN map
    ELSE InsertAll(IF os[opt[i].of].supplied
                   THEN MapPut(map, opt[i].key, ValueAsF64(os[opt[i].of]))
                   ELSE map,
                   opt, os, i + 1)

NotGenerated == <<FALSE, <<>>, <<>>>>

NoEntries == <<FALSE, EmptyMap>>

\* pipeline_overridable_constants is not called
ConstIdle ==
    /\ overrides = <<>>
    /\ generated = NotGenerated
    /\ entries = NoEntries

\* pipeline_overridable_constants(module, options)
GenerateConstants ==
    /\ ~generated[1]
    /\ generated' = <<TRUE, RequiredEntries(overrides, 1), InsertOptionalEntries(overrides, 1)>>
    /\ UNCHANGED <<overrides, entries, wgslVars, structVars, shapeVars,
                   bindingVars, ifdefVars, groupVars, importVars, callVars>>

\* the generated OverrideConstants::constants(&self), consts.rs:133-137;
\* there is no such function when the module has no override (consts.rs:124)
CallConstants ==
    /\ generated[1]
    /\ ~entries[1]
    /\ overrides # <<>>
    /\ entries' = <<TRUE, InsertAll(MapFrom(EmptyMap, generated[2], overrides, 1),
                                    generated[3], overrides, 1)>>
    /\ UNCHANGED <<overrides, generated, wgslVars, structVars, shapeVars,
                   bindingVars, ifdefVars, groupVars, importVars, callVars>>

\* the helpers are not called
(***************************************************************************)
(* structs.rs: add_types_recursive call by call, on a module whose types   *)
(* may refer to any type of the module, themselves included.  A call is    *)
(* [ty, next]: its type and the position of the next base or member it     *)
(* recurses into.                                                          *)
(***************************************************************************)
\* the types a call on h recurses into, structs.rs:107-116
BasesOf(arena, h) ==
    CASE arena[h].inner \in {"Pointer", "Array", "BindingArray"} -> <<arena[h].bases[1]>>
      [] arena[h].inner = "Struct" -> arena[h].bases
      [] OTHER -> <<>>

WalkCall(h) == [ty |-> h, next |-> 0]

\* the calls the stack of the thread has room for: more than any walk of a
\* module without a cycle needs
WalkStackLimit == MaxWalkTypes + 2

WalkTop == walk_stack[Len(walk_stack)]

WalkIdle ==
    /\ walk_arena = <<>>
    /\ walk_stack = <<>>
    /\ walk_types = {}
    /\ walk_status = "idle"

\* types.insert(ty), structs.rs:105
WalkInsert ==
    /\ walk_status = "running"
    /\ WalkTop.next = 0
    /\ walk_types' = walk_types \cup {WalkTop.ty}
    /\ walk_stack' = [walk_stack EXCEPT ![Len(walk_stack)].next = 1]
    /\ UNCHANGED <<walk_arena, walk_status, layoutVars, vertexVars, wgslVars, structVars, constVars,
                   bindingVars, ifdefVars, groupVars, importVars, callVars>>

\* A recursive call of structs.rs:108-115; there is no test of whether the
\* type is in `types` already.  The call that finds no room on the stack
\* ends the process.
WalkRecurse ==
    /\ walk_status = "running"
    /\ WalkTop.next > 0
    /\ WalkTop.next <= Len(BasesOf(walk_arena, WalkTop.ty))
    /\ IF Len(walk_stack) = WalkStackLimit
       THEN /\ walk_status' = "overflow"
            /\ UNCHANGED walk_stack
       ELSE /\ walk_stack' =
                  Append([walk_stack EXCEPT ![Len(walk_stack)].next = WalkTop.next + 1],
                         WalkCall(BasesOf(walk_arena, WalkTop.ty)[WalkTop.next]))
            /\ UNCHANGED walk_status
    /\ UNCHANGED <<walk_arena, walk_types, layoutVars, vertexVars, wgslVars, structVars, constVars,
                   bindingVars, ifdefVars, groupVars, importVars, callVars>>

\* The call has recursed into every base or member and returns.
WalkReturn ==
    /\ walk_status = "running"
    /\ WalkTop.next > Len(BasesOf(walk_arena, WalkTop.ty))
    /\ walk_stack' = SubSeq(walk_stack, 1, Len(walk_stack) - 1)
    /\ walk_status' = IF Len(walk_stack) = 1 THEN "returned" ELSE "running"
    /\ UNCHANGED <<walk_arena, walk_types, layoutVars, vertexVars, wgslVars, structVars, constVars,
                   bindingVars, ifdefVars, groupVars, importVars, callVars>>

(***************************************************************************)
(* generate/bind_group/mod.rs: bind_group_layout_entry.  A GroupBinding is *)
(* [inner, address_space, dim, class, comparison]: the shape of            *)
(* binding_type.inner, the address space of the global, and for an image   *)
(* its dimension and class, for a sampler its comparison flag.  A class is *)
(* [class, kind, multi, access].  The entry is given by its `ty`.          *)
(***************************************************************************)
GroupBinding(inner, space, dim, class, comparison) ==
    [inner |-> inner, address_space |-> space, dim |-> dim, class |-> class,
     comparison |-> comparison]

ImageClass(class, kind, multi, access) ==
    [class |-> class, kind |-> kind, multi |-> multi, access |-> access]

\* no call yet
NotClassified == <<"none">>

\* panic!(..), todo!(): no entry is returned
Fatal(message) == <<"panic", message>>

\* wgpu::BindingType::Buffer { ty, .. }
BufferEntry(bt) == <<"Buffer", bt>>

\* wgpu::BindingType::Texture { sample_type, view_dimension, multisampled }
TextureEntry(sample_type, dim, multi) == <<"Texture", sample_type, dim, multi>>

\* wgpu::BindingType::StorageTexture { access, view_dimension, .. }
StorageTextureEntry(access, dim) == <<"StorageTexture", access, dim>>

\* wgpu::BindingType::Sampler(..)
SamplerEntry(sampler_type) == <<"Sampler", sampler_type>>

\* mod.rs:449-458
storage_access(access) ==
    LET is_read == "LOAD" \in access
        is_write == "STORE" \in access
    IN  CASE is_read /\ is_write -> "ReadWrite"
          [] is_read /\ ~is_write -> "ReadOnly"
          [] ~is_read /\ is_write -> "WriteOnly"
          [] OTHER -> "todo!"

\* the arm of mod.rs:352-369
BufferArm(b) ==
    LET bt == buffer_binding_type(b.address_space) IN
    IF bt = Todo THEN Fatal("todo!") ELSE BufferEntry(bt)

\* the arm of mod.rs:370-415
ImageArm(b) ==
    CASE b.class.class = "Sampled" ->
            (CASE b.class.kind = "Sint"  -> TextureEntry("Sint", b.dim, b.class.multi)
               [] b.class.kind = "Uint"  -> TextureEntry("Uint", b.dim, b.class.multi)
               [] b.class.kind = "Float" -> TextureEntry("Float", b.dim, b.class.multi)
               [] OTHER -> Fatal("Unsupported sample type"))
      [] b.class.class = "Depth" -> TextureEntry("Depth", b.dim, b.class.multi)
      [] b.class.class = "Storage" ->
            (IF storage_access(b.class.access) = "todo!" THEN Fatal("todo!")
             ELSE StorageTextureEntry(storage_access(b.class.access), b.dim))

\* the arm of mod.rs:416-423
SamplerArm(b) ==
    IF b.comparison THEN SamplerEntry("Comparison") ELSE SamplerEntry("Filtering")

\* A classification that falls back on a buffer for the other shapes.
BufferFallback(b) == BufferArm(b)

\* the arm of mod.rs:425
OtherArm(b) == Fatal("Failed to generate BindingType.")

\* mod.rs:338-447
bind_group_layout_entry(b) ==
    CASE b.inner \in {"Scalar", "Struct", "Array"} -> BufferArm(b)
      [] b.inner = "Image" -> ImageArm(b)
      [] b.inner = "Sampler" -> SamplerArm(b)
      [] OTHER -> OtherArm(b)

\* the shapes of naga::TypeInner
TypeShapes ==
    {"Scalar", "Vector", "Matrix", "Atomic", "Pointer", "Array", "Struct",
     "Image", "Sampler", "BindingArray"}

ImageClasses ==
    {ImageClass("Sampled", kind, multi, {}) : kind \in ScalarKinds, multi \in BOOLEAN}
    \cup {ImageClass("Depth", "Float", multi, {}) : multi \in BOOLEAN}
    \cup {ImageClass("Storage", "Float", FALSE, access) : access \in SUBSET {"LOAD", "STORE"}}

ImageDimensions == {"D1", "D2", "D3", "Cube"}

\* the address spaces a global with a binding is declared in, and two others
BindingSpaces ==
    {sp \in AddressSpaces : sp.space \in {"Uniform", "Storage", "Handle", "Private"}}

GroupBindings ==
    {GroupBinding(inner, space, dim, class, comparison) :
        inner \in TypeShapes, space \in BindingSpaces, dim \in ImageDimensions,
        class \in ImageClasses, comparison \in BOOLEAN}

\* bind_group_layout_entry is not called
LayoutIdle ==
    /\ group_binding = GroupBinding("Scalar", AddressSpace("Uniform", {}), "D2",
                                    ImageClass("Depth", "Float", FALSE, {}), FALSE)
    /\ layout_entry = NotClassified

LayoutInit ==
    /\ group_binding \in GroupBindings
    /\ layout_entry = NotClassified

\* bind_group_layout_entry(.., binding), mod.rs:338-447
CallBindGroupLayoutEntry ==
    /\ layout_entry = NotClassified
    /\ layout_entry' = bind_group_layout_entry(group_binding)
    /\ UNCHANGED <<group_binding, walkVars, vertexVars, wgslVars, structVars, constVars,
                   bindingVars, ifdefVars, groupVars, importVars, callVars>>

(***************************************************************************)
(* wgsl.rs get_vertex_input_structs and generate/entry.rs vertex_states.   *)
(* A type is [inner, members], a member [name, binding] with binding       *)
(* <<"Location", n>>, <<"BuiltIn", 0>> or <<"None", 0>>; an entry point is *)
(* [stage, arguments], an argument [bound, ty]: whether it has a binding,  *)
(* and the handle of its type.  A VertexInput is [item, fields]: the       *)
(* handle of the struct and the <<location, member>> of its fields.        *)
(***************************************************************************)
Member(name, binding) == [name |-> name, binding |-> binding]

VertexType(inner, members) == [inner |-> inner, members |-> members]

Argument(bound, h) == [bound |-> bound, ty |-> h]

EntryFunction(stage, arguments) == [stage |-> stage, arguments |-> arguments]

VertexInput(h, fields) == [item |-> h, fields |-> fields]

\* no call yet
NotCalledYet == <<"none", <<>>>>

\* Option::unwrap on None: the call panics and returns nothing
Panicked == <<"panic", <<>>>>

Returns(value) == <<"ok", value>>

\* The last entry point of vertex stage, 0 when there is none.
LastVertex(m) ==
    LET found == {i \in 1..Len(m.entry_points) : m.entry_points[i].stage = "Vertex"}
    IN  IF found = {} THEN 0 ELSE CHOOSE i \in found : \A j \in found : j <= i

\* .find(|e| e.stage == naga::ShaderStage::Vertex), wgsl.rs:94-97: the
\* position of the first entry point of vertex stage, 0 when there is none
FirstVertex(m) ==
    LET found == {i \in 1..Len(m.entry_points) : m.entry_points[i].stage = "Vertex"}
    IN  IF found = {} THEN 0 ELSE CHOOSE i \in found : \A j \in found : i <= j

RECURSIVE Fields(_, _)
\* the filter_map of wgsl.rs:117-129 from member i on
Fields(members, i) ==
    IF i > Len(members) THEN <<>>
    ELSE IF members[i].binding[1] = "Location"
         THEN <<<<members[i].binding[2], members[i]>>>> \o Fields(members, i + 1)
         ELSE Fields(members, i + 1)

\* member.binding.as_ref().unwrap(), wgsl.rs:120, on a member without binding
UnwrapsNone(members) == \E i \in 1..Len(members) : members[i].binding[1] = "None"

\* the arguments the filter of wgsl.rs:103 and the match of wgsl.rs:106-107
\* let through
StructArguments(m, arguments) ==
    SelectSeq(arguments, LAMBDA a : ~a.bound /\ m.types[a.ty].inner = "Struct")

\* wgsl.rs:89-141
get_vertex_input_structs(m) ==
    IF FirstVertex(m) = 0 THEN Returns(<<>>)
    ELSE LET chosen == StructArguments(m, m.entry_points[FirstVertex(m)].arguments)
         IN  IF \E k \in 1..Len(chosen) : UnwrapsNone(m.types[chosen[k].ty].members)
             THEN Panicked
             ELSE Returns([k \in 1..Len(chosen) |->
                              VertexInput(chosen[k].ty,
                                          Fields(m.types[chosen[k].ty].members, 1))])

RECURSIVE VertexEntryFns(_, _, _)
\* the filter_map of entry.rs:73-120 from entry point i on: a function for
\* each entry point of vertex stage, with `buffers` the layout expressions
VertexEntryFns(m, layout_expressions, i) ==
    IF i > Len(m.entry_points) THEN <<>>
    ELSE IF m.entry_points[i].stage = "Vertex"
         THEN <<[entry_point |-> i,
                 n |-> Len(layout_expressions),
                 buffers |-> layout_expressions]>>
                 \o VertexEntryFns(m, layout_expressions, i + 1)
         ELSE VertexEntryFns(m, layout_expressions, i + 1)

\* entry.rs:58-121
vertex_states(m) ==
    LET vertex_input_structs == get_vertex_input_structs(m) IN
    IF vertex_input_structs = Panicked THEN Panicked
    ELSE LET layout_expressions ==
                 [k \in 1..Len(vertex_input_structs[2]) |-> vertex_input_structs[2][k].item]
         IN  Returns(VertexEntryFns(m, layout_expressions, 1))

\* the helpers are not called
VertexIdle ==
    /\ vertex_module = [types |-> <<>>, entry_points |-> <<>>]
    /\ vertex_inputs = NotCalledYet
    /\ vertex_entries = NotCalledYet

\* wgsl::get_vertex_input_structs(invoking_entry_module, module)
CallGetVertexInputStructs ==
    /\ vertex_inputs = NotCalledYet
    /\ vertex_inputs' = get_vertex_input_structs(vertex_module)
    /\ UNCHANGED <<vertex_module, vertex_entries, walkVars, layoutVars,
                   wgslVars, structVars, constVars,
                   bindingVars, ifdefVars, groupVars, importVars, callVars>>

\* vertex_states(invoking_entry_module, module)
CallVertexStates ==
    /\ vertex_entries = NotCalledYet
    /\ vertex_entries' = vertex_states(vertex_module)
    /\ UNCHANGED <<vertex_module, vertex_inputs, walkVars, layoutVars,
                   wgslVars, structVars, constVars,
                   bindingVars, ifdefVars, groupVars, importVars, callVars>>

\* the helpers modelled step by step or by shape are not called
ShapeIdle == WalkIdle /\ LayoutIdle /\ VertexIdle

ReflectIdle == WgslIdle /\ StructIdle /\ ConstIdle /\ ShapeIdle

\* One iteration of the loop of structs.rs:14-16.
VisitGlobalType ==
    /\ ~struct_items[1]
    /\ globals_visited < Len(naga_module.global_variables)
    /\ globals_visited' = globals_visited + 1
    /\ global_variable_types' =
          add_types_recursive(global_variable_types, naga_module.types,
                              naga_module.global_variables[globals_visited + 1])
    /\ UNCHANGED <<naga_module, type_map, struct_items, wgslVars, constVars, shapeVars,
                   bindingVars, ifdefVars, groupVars, importVars, callVars>>

\* structs.rs:20-62: the items are collected and returned.
CollectStructs ==
    /\ ~struct_items[1]
    /\ globals_visited = Len(naga_module.global_variables)
    /\ struct_items' = <<TRUE, StructsBuilt(naga_module, global_variable_types, type_map)>>
    /\ UNCHANGED <<naga_module, type_map, globals_visited, global_variable_types,
                   wgslVars, constVars, shapeVars,
                   bindingVars, ifdefVars, groupVars, importVars, callVars>>

(***************************************************************************)
(* Symbolic binding allocation (bindgen.rs:25-41).                         *)
(***************************************************************************)
\* A closure that never advances the per-label counter (it.1 += 1 left out).
GroupAndBindingForNoAdvance(enc, gn, label) ==
    LET fresh == label \notin DOMAIN enc
        it    == IF fresh THEN <<gn, 0>> ELSE enc[label]
    IN  [encountered |-> MapPut(enc, label, it),
         group_n     |-> IF fresh THEN gn + 1 ELSE gn,
         res         |-> it]

\* The closure |group| { .. } of bindgen.rs:32-41: the entry of the label is
\* created as (group_n, 0) on first use (group_n then grows by one), the
\* entry's value is the result, and the entry's binding counter grows by one.
GroupAndBindingFor(enc, gn, label) ==
    LET fresh == label \notin DOMAIN enc
        it    == IF fresh THEN <<gn, 0>> ELSE enc[label]
    IN  [encountered |-> MapPut(enc, label, <<it[1], it[2] + 1>>),
         group_n     |-> IF fresh THEN gn + 1 ELSE gn,
         res         |-> it]

(***************************************************************************)
(* The @group_binding rewrite of a line (lib.rs:436-451).                  *)
(***************************************************************************)
IsGb(tok) == Tag(tok) \in {"gb", "gbsp"}

\* line_trimmed.starts_with('@')
StartsWithAt(line) == Len(line) > 0 /\ IsGb(line[1])

\* rest.split_once("group_binding"), split_once('('), split_once(')'):
\* the label of the first occurrence in the line, trimmed
FirstGbIndex(line) == CHOOSE i \in 1..Len(line) :
                          IsGb(line[i]) /\ \A j \in 1..(i - 1) : ~IsGb(line[j])

\* line.replace("@group_binding({name})", "@group({group}) @binding({binding})"):
\* every occurrence spelled exactly @group_binding(name) is replaced
ReplaceGb(line, name, g, b) ==
    [i \in 1..Len(line) |->
        IF Tag(line[i]) = "gb" /\ Text(line[i]) = name THEN Resolved(g, b) ELSE line[i]]

\* the rewrite: the new line and the new state of the closure
RewriteLine(line, enc, gn) ==
    IF StartsWithAt(line)
    THEN LET name == Text(line[FirstGbIndex(line)])
             r    == GroupAndBindingFor(enc, gn, name)
         IN  [line        |-> ReplaceGb(line, name, r.res[1], r.res[2]),
              encountered |-> r.encountered,
              group_n     |-> r.group_n,
              called      |-> << <<name, r.res[1], r.res[2]>> >>]
    ELSE [line |-> line, encountered |-> enc, group_n |-> gn, called |-> <<>>]

\* A rewrite that leaves the lines of a suppressed region alone.
RewriteActiveOnly(line, skip, enc, gn) ==
    IF skip THEN [line |-> line, encountered |-> enc, group_n |-> gn, called |-> <<>>]
    ELSE RewriteLine(line, enc, gn)

\* lib.rs:436-451 stands after the directive handling and does not read
\* should_skip: the rewrite of a line read while output is suppressed
RewriteWhile(line, skip, enc, gn) == RewriteLine(line, enc, gn)

(***************************************************************************)
(* Macro substitution (lib.rs:460-463).                                    *)
(***************************************************************************)
RECURSIVE ReplaceKey(_, _, _)
\* String::replace(key, value) on the words of a line; an empty value
\* removes the word
ReplaceKey(line, key, value) ==
    IF line = <<>> THEN <<>>
    ELSE LET tok  == Head(line)
             rest == ReplaceKey(Tail(line), key, value)
         IN  IF Tag(tok) = "w" /\ Text(tok) = key
             THEN (IF value = "" THEN rest ELSE <<Word(value)>> \o rest)
             ELSE <<tok>> \o rest

RECURSIVE ReplaceInOrder(_, _, _)
\* for (key, value) in defs.iter() { replaced_line = replaced_line.replace(..) }
ReplaceInOrder(line, table, order) ==
    IF order = <<>> THEN line
    ELSE ReplaceInOrder(ReplaceKey(line, Head(order), table[Head(order)]),
                        table, Tail(order))

\* the orders in which HashMap::iter may yield the keys
IterOrders(table) ==
    {o \in [1..Cardinality(DOMAIN table) -> DOMAIN table] :
        \A i, j \in DOMAIN o : (i # j) => (o[i] # o[j])}

(***************************************************************************)
(* Conditional resolution, one line (lib.rs:335-470).                      *)
(***************************************************************************)
\* line_trimmed.starts_with('#'): the first word is #op
Directives == {"#ifdef", "#else", "#endif", "#define", "#undef", "#undefine",
               "#import", "#ifndef"}

IsDirective(line) ==
    Len(line) > 0 /\ Tag(line[1]) = "w" /\ Text(line[1]) \in Directives

Op(line) == IF IsDirective(line) THEN Text(line[1]) ELSE ""

\* rest.next() after the op: the key, "" when there is none
HasKey(line) == Len(line) >= 2
KeyOf(line)  == IF HasKey(line) THEN Text(line[2]) ELSE ""
\* the second rest.next(): val.unwrap_or_default()
ValOf(line)  == IF Len(line) >= 3 THEN Text(line[3]) ELSE ""

\* A depth that no directive changes.
NewDepthUnchanged(line, d, skip, table) == d

\* A depth that does not count the #ifdef lines of a suppressed region.
NewDepthFlat(line, d, skip, table) ==
    LET op == Op(line) IN
    IF skip
    THEN CASE op \in {"#endif", "#else"} -> (IF d > 0 THEN d - 1 ELSE d)
           [] OTHER -> d
    ELSE IF op = "#ifdef" /\ HasKey(line) /\ KeyOf(line) \notin DOMAIN table
         THEN d + 1 ELSE d

\* depth after the line
NewDepth(line, d, skip, table) ==
    LET op == Op(line) IN
    IF skip
    THEN CASE op = "#endif" -> (IF d > 0 THEN d - 1 ELSE d)
           [] op = "#ifdef" -> d + 1
           [] op = "#else"  -> (IF d > 0 THEN d - 1 ELSE d)
           [] OTHER -> d
    ELSE CASE op = "#endif" -> (IF d > 0 THEN d - 1 ELSE d)
           [] op = "#ifdef" ->
                (IF HasKey(line) /\ KeyOf(line) \notin DOMAIN table THEN d + 1 ELSE d)
           [] op = "#else"  -> (IF d > 0 THEN d - 1 ELSE d)
           [] OTHER -> d

\* An #ifdef that never starts a suppressed region.
EntersSkipNever(line, skip, table) == FALSE

\* should_skip = true at lib.rs:383: an active #ifdef whose key is undefined
EntersSkip(line, skip, table) ==
    /\ ~skip
    /\ Op(line) = "#ifdef"
    /\ HasKey(line)
    /\ KeyOf(line) \notin DOMAIN table

\* Only the conditional directives commented while output is active.
CommentThisLineConditionals(line, skip) ==
    \/ skip
    \/ Op(line) \in {"#endif", "#ifdef", "#else"}

\* comment_this_line, lib.rs:338, 375, 389, 399, 411, 420
CommentThisLine(line, skip) ==
    \/ skip
    \/ Op(line) \in {"#endif", "#ifdef", "#else", "#define", "#undef", "#undefine"}

\* reason
Reason(line, d, skip, table) ==
    LET op == Op(line) IN
    IF skip
    THEN CASE op = "#else" -> (IF d > 0 THEN " (true)" ELSE " (false)")
           [] OTHER -> ""
    ELSE CASE op = "#ifdef" /\ HasKey(line) ->
                (IF KeyOf(line) \notin DOMAIN table THEN " (false)" ELSE " (true)")
           [] op = "#else" -> (IF d > 0 THEN " (true)" ELSE " (false)")
           [] op = "#define" /\ HasKey(line) -> " (defined " \o KeyOf(line) \o ")"
           [] op \in {"#undef", "#undefine"} /\ HasKey(line) ->
                " (undefined " \o KeyOf(line) \o ")"
           [] OTHER -> ""

\* A table that #define and #undef change while output is suppressed too.
NewDefsWhileSkipping(line, skip, table) ==
    LET op == Op(line) IN
    IF ~HasKey(line) THEN table
    ELSE CASE op = "#define" -> MapPut(table, KeyOf(line), ValOf(line))
           [] op \in {"#undef", "#undefine"} -> MapRemove(table, KeyOf(line))
           [] OTHER -> table

\* the DefineTable after the line: #define and #undef execute only while
\* output is active (the match of lib.rs:347-368 has no arm for them)
NewDefs(line, skip, table) ==
    LET op == Op(line) IN
    IF skip \/ ~HasKey(line) THEN table
    ELSE CASE op = "#define" -> MapPut(table, KeyOf(line), ValOf(line))
           [] op \in {"#undef", "#undefine"} -> MapRemove(table, KeyOf(line))
           [] OTHER -> table

\* panic!("imports should have already been resolved by a previous pass")
Panics(line, skip) == ~skip /\ Op(line) = "#import"

\* An observer called for the #ifdef lines of suppressed regions as well.
ObservedWhileSkipping(line, skip) ==
    IF Op(line) = "#ifdef" /\ HasKey(line) THEN <<KeyOf(line)>> ELSE <<>>

\* encountered_ifdef(key), lib.rs:380
Observed(line, skip) ==
    IF ~skip /\ Op(line) = "#ifdef" /\ HasKey(line) THEN <<KeyOf(line)>> ELSE <<>>

NotReturnedYet == <<FALSE, 0, FALSE>>

\* neither preprocess_resolve_ifdefs has returned nor generate_output is run
CallIdle ==
    /\ ifdef_result = NotReturnedYet
    /\ all_shaders = <<>>
    /\ shader_pos = 0
    /\ entry_results = <<>>

IfdefInit ==
    /\ lines_read = <<>>
    /\ depth = 0
    /\ should_skip = FALSE
    /\ output = <<>>
    /\ ifdef_seen = <<>>
    /\ before = <<>>
    /\ panicked = FALSE

BindingInit ==
    /\ group_n = 0
    /\ encountered = EmptyMap
    /\ calls = <<>>

\* One iteration of the loop of lib.rs:335-471 on the next line of the source.
ProcessLine(line) ==
    /\ ~panicked
    /\ ~ifdef_result[1]
    /\ UNCHANGED <<groupVars, importVars, reflectVars, callVars>>
    /\ lines_read' = Append(lines_read, line)
    /\ before' = Append(before, [depth |-> depth, skip |-> should_skip, defs |-> defs])
    /\ IF Panics(line, should_skip)
       THEN /\ panicked' = TRUE
            /\ UNCHANGED <<depth, should_skip, defs, output, ifdef_seen,
                           group_n, encountered, calls>>
       ELSE LET d2    == NewDepth(line, depth, should_skip, defs)
                skip2 == should_skip \/ EntersSkip(line, should_skip, defs)
                defs2 == NewDefs(line, should_skip, defs)
                rw    == RewriteWhile(line, should_skip, encountered, group_n)
            IN  /\ panicked' = FALSE
                /\ depth' = d2
                /\ defs' = defs2
                /\ ifdef_seen' = ifdef_seen \o Observed(line, should_skip)
                /\ encountered' = rw.encountered
                /\ group_n' = rw.group_n
                /\ calls' = calls \o rw.called
                /\ IF CommentThisLine(line, should_skip)
                   THEN output' = Append(output,
                            [commented |-> TRUE, line |-> rw.line,
                             reason |-> Reason(line, depth, should_skip, defs)])
                   ELSE \E order \in IterOrders(defs2) :
                            output' = Append(output,
                                [commented |-> FALSE,
                                 line |-> ReplaceInOrder(rw.line, defs2, order),
                                 reason |-> ""])
                \* stop_skipping, lib.rs:467-470
                /\ should_skip' = (skip2 /\ ~(d2 = 0))

\* preprocess_resolve_ifdefs, lib.rs:220-232: the loop has ended,
\* resulting_depth is the depth left, the warning is printed when it is not 0
\* and the output is returned.
ReturnIfdefs ==
    /\ ~panicked
    /\ ~ifdef_result[1]
    /\ shader_pos = 0
    /\ ifdef_result' = <<TRUE, depth, depth # 0>>
    /\ UNCHANGED <<all_shaders, shader_pos, entry_results,
                   bindingVars, ifdefVars, groupVars, importVars, reflectVars>>

(***************************************************************************)
(* generate_output (bindgen/bindgen.rs:101-115): the shaders are handed    *)
(* one after the other to generate_naga_module_for_source.                 *)
(***************************************************************************)
\* The tables of the shader before, kept.
SharedTables(gn, enc, table) == [group_n |-> gn, encountered |-> enc, defs |-> table]

\* bindgen.rs:25, 26, 29: the locals of generate_naga_module_for_source
FreshTables(gn, enc, table) == [group_n |-> 0, encountered |-> EmptyMap, defs |-> EmptyMap]

\* the shader being processed
Shader == all_shaders[shader_pos]

\* generate_naga_module_for_source is called on the next shader.
EnterModule ==
    /\ ~panicked
    /\ shader_pos < Len(all_shaders)
    /\ shader_pos = Len(entry_results)
    /\ shader_pos' = shader_pos + 1
    /\ LET tables == FreshTables(group_n, encountered, defs)
       IN  /\ group_n' = tables.group_n
           /\ encountered' = tables.encountered
           /\ defs' = tables.defs
    \* preprocess_resolve_ifdefs_implementation is entered, lib.rs:328-333
    /\ lines_read' = <<>>
    /\ depth' = 0
    /\ should_skip' = FALSE
    /\ output' = <<>>
    /\ before' = <<>>
    /\ calls' = <<>>
    /\ ifdef_result' = NotReturnedYet
    /\ UNCHANGED <<ifdef_seen, panicked, all_shaders, entry_results,
                   groupVars, importVars, reflectVars>>

\* the loop of lib.rs:335 reads the next line of the shader
ReadModuleLine ==
    /\ shader_pos > Len(entry_results)
    /\ Len(lines_read) < Len(Shader)
    /\ ProcessLine(Shader[Len(lines_read) + 1])

\* fully_preprocess returns and the result is collected (bindgen.rs:73-77,
\* 107-112)
FinishModule ==
    /\ ~panicked
    /\ shader_pos > Len(entry_results)
    /\ Len(lines_read) = Len(Shader)
    /\ ifdef_result' = <<TRUE, depth, depth # 0>>
    /\ entry_results' = Append(entry_results, output)
    /\ UNCHANGED <<all_shaders, shader_pos,
                   bindingVars, ifdefVars, groupVars, importVars, reflectVars>>

(***************************************************************************)
(* get_bind_group_data (generate/bind_group/mod.rs:460-502).               *)
(***************************************************************************)
\* global.binding: <<"Some", group, binding>> or the None below
NoBinding == <<"None", 0, 0>>
SomeBinding(group, binding) == <<"Some", group, binding>>

HasBinding(global) == global[1] = "Some"
BindingGroup(global) == global[2]
BindingIndex(global) == global[3]

GroupIndices   == 0..2
BindingIndices == 0..1

Globals == {NoBinding} \cup {SomeBinding(g, b) : g \in GroupIndices, b \in BindingIndices}

RECURSIVE SeqsUpTo(_, _)
\* the sequences over S of length at most n
SeqsUpTo(S, n) ==
    IF n = 0 THEN {<<>>}
    ELSE LET shorter == SeqsUpTo(S, n - 1)
         IN  shorter \cup {Append(q, x) : q \in {r \in shorter : Len(r) = n - 1}, x \in S}

\* the empty BTreeMap
NoGroups == [g \in {} |-> <<>>]

\* the pass is not run
GroupIdle ==
    /\ global_variables = <<>>
    /\ global_handle = 1
    /\ groups = NoGroups
    /\ result = <<"idle", 0>>

GroupInit ==
    /\ global_variables \in SeqsUpTo(Globals, MaxGlobals)
    /\ global_handle = 1
    /\ groups = NoGroups
    /\ result = <<"running", 0>>

\* groups.entry(binding.group).or_insert(GroupData { bindings: Vec::new() })
EntryOrInsert(m, g) == IF g \in DOMAIN m THEN m ELSE MapPut(m, g, <<>>)

\* A check that looks for the binding index in every group.
IsDuplicateAnyGroup(m, g, b) ==
    \E h \in DOMAIN m : \E i \in 1..Len(m[h]) : m[h][i] = b

\* group.bindings.iter().any(|g| g.binding_index == binding.binding)
IsDuplicate(m, g, b) == \E i \in 1..Len(m[g]) : m[g][i] = b

\* A check that accepts every set of groups.
ConsecutiveFromZeroAlways(m) == TRUE

\* groups.keys().map(|i| *i as usize).eq(0..groups.len()): the keys of a
\* BTreeMap come in ascending order
ConsecutiveFromZero(m) == DOMAIN m = 0..(Cardinality(DOMAIN m) - 1)

\* One iteration of the loop of mod.rs:467-494.
VisitGlobal ==
    /\ result = <<"running", 0>>
    /\ global_handle <= Len(global_variables)
    /\ LET global == global_variables[global_handle] IN
       IF HasBinding(global)
       THEN LET g  == BindingGroup(global)
                b  == BindingIndex(global)
                m2 == EntryOrInsert(groups, g)
            IN  IF IsDuplicate(m2, g, b)
                THEN /\ result' = <<"DuplicateBinding", b>>
                     /\ groups' = m2
                     /\ UNCHANGED global_handle
                ELSE /\ groups' = MapPut(m2, g, Append(m2[g], b))
                     /\ global_handle' = global_handle + 1
                     /\ UNCHANGED result
       ELSE /\ global_handle' = global_handle + 1
            /\ UNCHANGED <<groups, result>>
    /\ UNCHANGED <<global_variables,
                   bindingVars, ifdefVars, importVars, reflectVars, callVars>>

\* The check after the loop, mod.rs:497-501.
ReturnGroups ==
    /\ result = <<"running", 0>>
    /\ global_handle > Len(global_variables)
    /\ result' = IF ConsecutiveFromZero(groups)
                 THEN <<"Ok", 0>>
                 ELSE <<"NonConsecutiveBindGroups", 0>>
    /\ UNCHANGED <<global_variables, global_handle, groups,
                   bindingVars, ifdefVars, importVars, reflectVars, callVars>>

SpecGroupsInit ==
    ReflectIdle /\ CallIdle /\ BindingInit /\ IfdefInit /\ defs = EmptyMap /\ ImportIdle /\ GroupInit

SpecGroupsNext == VisitGlobal \/ ReturnGroups

SpecGroups == SpecGroupsInit /\ [][SpecGroupsNext]_vars

(***************************************************************************)
(* A run over a source that exercises the symbolic bindings.               *)
(***************************************************************************)
Labels == {"X", "Y", "Z"}

BindingLines ==
    {<<Gb(l)>> : l \in Labels}
        \cup {<<Gb("X"), Gb("X")>>, <<Gb("X"), Gb("Y")>>,
              <<Word("var"), Gb("X")>>, <<GbSpaced("X")>>}

SpecBindingInit ==
    ReflectIdle /\ CallIdle /\ BindingInit /\ IfdefInit /\ GroupIdle /\ ImportIdle /\ defs = EmptyMap

ReadBindingLine ==
    /\ Len(lines_read) < MaxBindingLines
    /\ \E line \in BindingLines : ProcessLine(line)

SpecBinding == SpecBindingInit /\ [][ReadBindingLine]_vars

(***************************************************************************)
(* A run over symbolic bindings inside and outside suppressed regions.     *)
(***************************************************************************)
SkipBindingLines ==
    { <<Gb("X")>>, <<Gb("Y")>>, <<Word("#ifdef"), Word("B")>>, <<Word("#endif")>> }

ReadSkipBindingLine ==
    /\ Len(lines_read) < MaxBindingLines
    /\ \E line \in SkipBindingLines : ProcessLine(line)

SpecSkipBinding == SpecBindingInit /\ [][ReadSkipBindingLine]_vars

(***************************************************************************)
(* A run over a source that exercises the conditionals.                    *)
(***************************************************************************)
IfdefLines ==
    { <<Word("#ifdef"), Word("A")>>, <<Word("#ifdef"), Word("B")>>,
      <<Word("#ifdef")>>, <<Word("#else")>>, <<Word("#endif")>>,
      <<Word("#define"), Word("A"), Word("B")>>, <<Word("#define"), Word("B")>>,
      <<Word("#undef"), Word("A")>>,
      <<Word("#import"), Word("f")>>, <<Word("#ifndef"), Word("A")>>,
      <<Word("A"), Word("w")>>, <<Gb("X")>> }

\* the tables a caller hands to preprocess_resolve_ifdefs
InitialDefs == {EmptyMap, MapPut(EmptyMap, "A", "1")}

SpecIfdefInit ==
    ReflectIdle /\ CallIdle /\ BindingInit /\ IfdefInit /\ GroupIdle /\ ImportIdle /\ defs \in InitialDefs

ReadIfdefLine ==
    /\ Len(lines_read) < MaxIfdefLines
    /\ \E line \in IfdefLines : ProcessLine(line)

SpecIfdefNext == ReadIfdefLine \/ ReturnIfdefs

SpecIfdef == SpecIfdefInit /\ [][SpecIfdefNext]_vars

\* preprocess_resolve_ifdefs on sources of nested conditional blocks
NestedLines ==
    { <<Word("#ifdef"), Word("A")>>, <<Word("#ifdef"), Word("B")>>,
      <<Word("#endif")>>, <<Word("#else")>>, <<Word("#define"), Word("B")>>,
      <<Word("A"), Word("w")>> }

ReadNestedLine ==
    /\ Len(lines_read) < MaxNestedLines
    /\ \E line \in NestedLines : ProcessLine(line)

SpecNestedNext == ReadNestedLine \/ ReturnIfdefs

SpecNested == SpecIfdefInit /\ [][SpecNestedNext]_vars

(***************************************************************************)
(* A run of generate_output: shader b is processed first, and again after  *)
(* shader a.                                                               *)
(***************************************************************************)
RECURSIVE TextsUpTo(_, _)
\* the texts of at most n lines over the raw lines S
TextsUpTo(S, n) ==
    IF n = 0 THEN {<<>>}
    ELSE LET shorter == TextsUpTo(S, n - 1)
         IN  shorter \cup {Append(q, x) : q \in {r \in shorter : Len(r) = n - 1}, x \in S}

ModuleLines ==
    { <<Word("#define"), Word("A"), Word("B")>>, <<Word("#ifdef"), Word("A")>>,
      <<Word("#endif")>>, <<Word("A"), Word("w")>>, <<Gb("X")>>, <<Gb("Y")>> }

ModuleSources == TextsUpTo(ModuleLines, MaxModuleLines)

ShaderLists == {<<b, a, b>> : a \in ModuleSources, b \in ModuleSources}

SpecModulesInit ==
    /\ ReflectIdle /\ BindingInit /\ IfdefInit /\ GroupIdle /\ ImportIdle /\ defs = EmptyMap
    /\ ifdef_result = NotReturnedYet
    /\ all_shaders \in ShaderLists
    /\ shader_pos = 0
    /\ entry_results = <<>>

SpecModulesNext == EnterModule \/ ReadModuleLine \/ FinishModule

SpecModules == SpecModulesInit /\ [][SpecModulesNext]_vars

(***************************************************************************)
(* The runs of preprocess_resolve_imports that are checked.                *)
(***************************************************************************)
TextLine     == <<Word("t")>>
ImportA      == <<Word("#import"), Quoted("a")>>
IncludeB     == <<Word("#include"), Angled("b")>>
ImportNoName == <<Word("#import")>>
OtherHash    == <<Word("#ifdef"), Word("A")>>

\* only the last line of a text may lack its line feed
WellTerminated(text) == \A i \in 1..(Len(text) - 1) : text[i].nl

\* sources whose lines all end in a line feed
PlainSources ==
    TextsUpTo({RawLine(toks, 0, TRUE) :
                  toks \in {TextLine, ImportA, IncludeB, ImportNoName, OtherHash}},
              MaxSourceLines)

\* sources with every line ending: "\n", "\r\n", none, and "\r" alone
RawSources ==
    {text \in TextsUpTo({RawLine(toks, cr, nl) :
                            toks \in {TextLine, ImportA, IncludeB},
                            cr \in {0, 1}, nl \in BOOLEAN},
                        MaxSourceLines) :
        WellTerminated(text)}

\* what the lookup knows: acyclic files, a file that imports itself once or
\* twice, and two files that import each other
FilesOfA ==
    {NoFile,
     File(<<RawLine(TextLine, 0, TRUE)>>),
     File(<<RawLine(ImportA, 0, TRUE), RawLine(TextLine, 0, TRUE)>>),
     File(<<RawLine(ImportA, 0, TRUE), RawLine(ImportA, 0, TRUE)>>),
     File(<<RawLine(IncludeB, 0, TRUE)>>)}

FilesOfB ==
    {NoFile,
     File(<<RawLine(ImportA, 0, TRUE)>>),
     File(<<RawLine(TextLine, 1, FALSE)>>)}

FileTables == {[n \in {"a", "b"} |-> IF n = "a" THEN fa ELSE fb] :
                  fa \in FilesOfA, fb \in FilesOfB}

\* a few lookups for the sources with every line ending
FewFileTables ==
    {[n \in {"a", "b"} |-> IF n = "a" THEN fa ELSE fb] :
        fa \in {NoFile, File(<<RawLine(TextLine, 1, TRUE)>>)},
        fb \in {NoFile, File(<<RawLine(TextLine, 1, FALSE)>>)}}

ImportInit ==
    /\ \/ /\ import_src \in PlainSources
          /\ \/ has_lookup = TRUE /\ files \in FileTables
             \/ has_lookup = FALSE /\ files = EmptyMap
       \/ /\ import_src \in RawSources
          /\ \/ has_lookup = TRUE /\ files \in FewFileTables
             \/ has_lookup = FALSE /\ files = EmptyMap
    \* preprocess_resolve_imports: depth 0 (lib.rs:207)
    /\ stack = <<Frame(import_src, 0)>>
    /\ runs = <<>>
    /\ deepest_read = 0

SpecImportsInit ==
    ReflectIdle /\ CallIdle /\ BindingInit /\ IfdefInit /\ defs = EmptyMap /\ GroupIdle /\ ImportInit

SpecImportsNext == ReadLine \/ CutOff \/ ReturnOutput \/ RunAgain

SpecImports == SpecImportsInit /\ [][SpecImportsNext]_vars

\* the calls run to completion: nothing but the end of the work stops them
SpecImportsFair == SpecImports /\ WF_vars(SpecImportsNext)

(***************************************************************************)
(* fully_preprocess, lib.rs:183-199: preprocess_resolve_imports, then      *)
(* preprocess_resolve_ifdefs on the text it returned.                      *)
(***************************************************************************)
\* the lines preprocess_resolve_ifdefs reads from `resolved`
ResolvedLines == LinesOf(runs[1].out)

SpecFullyInit ==
    ReflectIdle /\ CallIdle /\ BindingInit /\ IfdefInit /\ GroupIdle /\ ImportInit
    /\ defs \in InitialDefs

\* One iteration of the loop of lib.rs:335-471 on the next line of `resolved`.
ReadResolvedLine ==
    /\ Len(runs) = 1
    /\ Len(lines_read) < Len(ResolvedLines)
    /\ ProcessLine(ResolvedLines[Len(lines_read) + 1].toks)

\* fully_preprocess returns what preprocess_resolve_ifdefs returns
ReturnFully ==
    /\ Len(runs) = 1
    /\ Len(lines_read) = Len(ResolvedLines)
    /\ ReturnIfdefs

SpecFullyNext == ReadLine \/ CutOff \/ ReturnOutput \/ ReadResolvedLine \/ ReturnFully

SpecFully == SpecFullyInit /\ [][SpecFullyNext]_vars

(***************************************************************************)
(* The calls of the helpers of wgsl.rs.                                    *)
(***************************************************************************)
SpecWgslInit ==
    /\ BindingInit /\ IfdefInit /\ defs = EmptyMap /\ GroupIdle /\ ImportIdle
    /\ ShapeIdle
    /\ CallIdle /\ StructIdle /\ ConstIdle /\ WgslInit

SpecWgslNext == CallBufferBindingType \/ CallVertexFormat

SpecWgsl == SpecWgslInit /\ [][SpecWgslNext]_vars

(***************************************************************************)
(* The modules structs_items is called on.                                 *)
(***************************************************************************)
\* the types a handle h may hold: a scalar, a pointer, array or binding
\* array of an earlier type, a struct of no, one or two earlier types
TypesAt(h) ==
    {NagaType("Scalar", <<>>), NagaType("Struct", <<>>)}
    \cup {NagaType(inner, <<b>>) :
             inner \in {"Pointer", "Array", "BindingArray", "Struct"}, b \in 1..(h - 1)}
    \cup {NagaType("Struct", <<h - 2, h - 1>>) : x \in {y \in {h} : y > 2}}

RECURSIVE Arenas(_)
\* the arenas of n types
Arenas(n) ==
    IF n = 0 THEN {<<>>}
    ELSE {Append(arena, t) : arena \in Arenas(n - 1), t \in TypesAt(n)}

\* no global, one, or two
GlobalLists(n) ==
    {<<>>} \cup {<<g>> : g \in 1..n}
    \cup {<<g1, g2>> : g1 \in 1..n, g2 \in 1..n}

\* no entry point, or one whose argument, result or both are of a type
EntryPointSets(n) ==
    {{}} \cup {{EntryPoint(h, NoType)} : h \in 1..n}
    \cup {{EntryPoint(NoType, h)} : h \in 1..n}
    \cup {{EntryPoint(h, h)} : h \in 1..n}

StructsInit ==
    /\ naga_module \in
          [types : Arenas(MaxTypes),
           global_variables : GlobalLists(MaxTypes),
           entry_points : EntryPointSets(MaxTypes)]
    /\ type_map \in {{}, {MaxTypes}}
    /\ globals_visited = 0
    /\ global_variable_types = {}
    /\ struct_items = NotReturned

SpecStructsInit ==
    /\ BindingInit /\ IfdefInit /\ defs = EmptyMap /\ GroupIdle /\ ImportIdle
    /\ ShapeIdle
    /\ CallIdle /\ WgslIdle /\ ConstIdle /\ StructsInit

SpecStructsNext == VisitGlobalType \/ CollectStructs

SpecStructs == SpecStructsInit /\ [][SpecStructsNext]_vars

(***************************************************************************)
(* The modules pipeline_overridable_constants is called on.                *)
(***************************************************************************)
\* the i-th override: with or without @id, required or optional (supplied
\* or omitted by the caller), of type bool or of another scalar type
OverridesAt(i) ==
    {[name |-> "c" \o ToString(i), id |-> id, init |-> init, bool |-> b,
      supplied |-> sup, flag |-> flag, number |-> num] :
        id \in {<<FALSE, 0>>, <<TRUE, i>>, <<TRUE, i + 10>>},
        init \in BOOLEAN, b \in BOOLEAN, sup \in BOOLEAN,
        flag \in BOOLEAN, num \in {0, 7}}

\* a required field always holds a value; only the value of its type counts
WellFormedOverride(o) ==
    /\ ~o.init => o.supplied
    /\ o.bool => o.number = 0
    /\ ~o.bool => o.flag = FALSE

RECURSIVE OverrideLists(_)
\* the lists of at most n overrides
OverrideLists(n) ==
    IF n = 0 THEN {<<>>}
    ELSE LET shorter == OverrideLists(n - 1) IN
         shorter \cup {Append(os, o) :
                          os \in {q \in shorter : Len(q) = n - 1},
                          o \in {x \in OverridesAt(n) : WellFormedOverride(x)}}

ConstsInit ==
    /\ overrides \in OverrideLists(MaxOverrides)
    /\ generated = NotGenerated
    /\ entries = NoEntries

SpecConstsInit ==
    /\ BindingInit /\ IfdefInit /\ defs = EmptyMap /\ GroupIdle /\ ImportIdle
    /\ ShapeIdle
    /\ CallIdle /\ WgslIdle /\ StructIdle /\ ConstsInit

SpecConstsNext == GenerateConstants \/ CallConstants

SpecConsts == SpecConstsInit /\ [][SpecConstsNext]_vars

(***************************************************************************)
(* add_types_recursive on modules whose types may form a cycle.            *)
(***************************************************************************)
\* the types of a module of n types: a scalar, a pointer, array or binding
\* array of any type, a struct of no, one or two members of any types
WalkTypesOf(n) ==
    {NagaType("Scalar", <<>>)}
    \cup {NagaType(inner, <<b>>) :
             inner \in {"Pointer", "Array", "BindingArray"}, b \in 1..n}
    \cup {NagaType("Struct", members) : members \in SeqsUpTo(1..n, 2)}

WalkArenas == UNION {[1..n -> WalkTypesOf(n)] : n \in 1..MaxWalkTypes}

\* add_types_recursive(&mut types, module, ty) is called with no type
\* collected yet
WalkInit ==
    /\ walk_arena \in WalkArenas
    /\ \E h \in 1..Len(walk_arena) : walk_stack = <<WalkCall(h)>>
    /\ walk_types = {}
    /\ walk_status = "running"

SpecWalkInit ==
    /\ BindingInit /\ IfdefInit /\ defs = EmptyMap /\ GroupIdle /\ ImportIdle
    /\ CallIdle /\ WgslIdle /\ StructIdle /\ ConstIdle /\ LayoutIdle /\ VertexIdle /\ WalkInit

SpecWalkNext == WalkInsert \/ WalkRecurse \/ WalkReturn

SpecWalk == SpecWalkInit /\ [][SpecWalkNext]_vars

\* the calls run until they return or the process ends
SpecWalkFair == SpecWalk /\ WF_vars(SpecWalkNext)

(***************************************************************************)
(* The calls of bind_group_layout_entry.                                   *)
(***************************************************************************)
SpecLayoutInit ==
    /\ BindingInit /\ IfdefInit /\ defs = EmptyMap /\ GroupIdle /\ ImportIdle
    /\ CallIdle /\ WgslIdle /\ StructIdle /\ ConstIdle /\ WalkIdle /\ VertexIdle /\ LayoutInit

SpecLayout == SpecLayoutInit /\ [][CallBindGroupLayoutEntry]_vars

(***************************************************************************)
(* The calls of get_vertex_input_structs and vertex_states.                *)
(***************************************************************************)
MemberBindings == {<<"Location", 0>>, <<"Location", 1>>, <<"BuiltIn", 0>>, <<"None", 0>>}

\* structs of no, one or two members, named by their position
VertexStructs ==
    {VertexType("Struct", [i \in 1..Len(bs) |-> Member(i, bs[i])]) :
        bs \in SeqsUpTo(MemberBindings, 2)}

\* type 1 a struct, type 2 a vector, type 3 a struct of a builtin and a
\* location
VertexArenas ==
    {<<t, VertexType("Vector", <<>>),
       VertexType("Struct", <<Member(1, <<"BuiltIn", 0>>), Member(2, <<"Location", 1>>)>>)>> :
        t \in VertexStructs}

\* the arguments of an entry point
ArgumentLists ==
    { <<>>,
      <<Argument(FALSE, 1)>>, <<Argument(TRUE, 1)>>,
      <<Argument(TRUE, 2)>>, <<Argument(FALSE, 2)>>,
      <<Argument(FALSE, 3)>>,
      <<Argument(FALSE, 1), Argument(TRUE, 2)>>,
      <<Argument(FALSE, 3), Argument(FALSE, 1)>> }

EntryFunctions ==
    {EntryFunction("Vertex", arguments) : arguments \in ArgumentLists}
    \cup {EntryFunction("Fragment", <<Argument(FALSE, 3)>>),
          EntryFunction("Compute", <<>>)}

VertexInit ==
    /\ vertex_module \in
          {[types |-> arena, entry_points |-> eps] :
              arena \in VertexArenas, eps \in SeqsUpTo(EntryFunctions, MaxEntryPoints)}
    /\ vertex_inputs = NotCalledYet
    /\ vertex_entries = NotCalledYet

SpecVertexInit ==
    /\ BindingInit /\ IfdefInit /\ defs = EmptyMap /\ GroupIdle /\ ImportIdle
    /\ CallIdle /\ WgslIdle /\ StructIdle /\ ConstIdle /\ WalkIdle /\ LayoutIdle
    /\ VertexInit

SpecVertexNext == CallGetVertexInputStructs \/ CallVertexStates

SpecVertex == SpecVertexInit /\ [][SpecVertexNext]_vars

(***************************************************************************)
(* C6 - C10: import resolution.                                            *)
(***************************************************************************)
SeqToSet(q) == {q[i] : i \in 1..Len(q)}

FirstRunDone  == Len(runs) >= 1
SecondRunDone == Len(runs) = 2

\* the first word of the line is `#import`
IsImportOnly(line) ==
    Len(line.toks) > 0 /\ line.toks[1] = Word("#import")

\* every line of the text ends in a line feed with no carriage return
PlainlyTerminated(text) == \A i \in 1..Len(text) : text[i].nl /\ text[i].cr = 0

\* the text with every line ended by a single line feed
Normalised(text) ==
    [i \in 1..Len(text) |->
        RawLine(text[i].toks,
                IF text[i].nl /\ text[i].cr > 0 THEN text[i].cr - 1 ELSE text[i].cr,
                TRUE)]

\* C6 as stated: an input without `#import` directive is returned unchanged.
C6_AsStated ==
    (FirstRunDone /\ \A line \in SeqToSet(LinesOf(import_src)) : ~IsImportOnly(line))
        => runs[1].out = import_src

\* C6 as amended: an input with neither `#import` nor `#include` directive is
\* returned with every line ended by one line feed (the carriage return of a
\* CRLF ending is dropped, a missing last line feed is added); it is returned
\* unchanged when every line of it ends in a line feed without carriage
\* return; with or without a lookup function.
C6_Amended ==
    (FirstRunDone /\ \A line \in SeqToSet(LinesOf(import_src)) : ~IsImport(line))
        => /\ runs[1].out = Normalised(import_src)
           /\ PlainlyTerminated(import_src) => runs[1].out = import_src

\* a source of two lines, one of them another directive, returned unchanged
C6_Witness ==
    /\ FirstRunDone
    /\ has_lookup
    /\ Len(import_src) = 2
    /\ import_src[1].toks = OtherHash
    /\ runs[1].out = import_src

\* no line of the text is an import or include directive
NoDirectiveLeft(text) == \A line \in SeqToSet(LinesOf(text)) : ~IsImport(line)

\* C7 as stated: the output holds no import or include directive, and a
\* second run on it returns it unchanged.
C7_AsStated ==
    /\ FirstRunDone => NoDirectiveLeft(runs[1].out)
    /\ SecondRunDone => runs[2].out = runs[1].out

\* the texts the first run reads: the source and the files of the lookup
TextsRead ==
    {import_src} \cup {files[n].text : n \in {m \in DOMAIN files : has_lookup}}

\* no line keeps a carriage return after its line ending is removed
NoStrayCr(text) == \A line \in SeqToSet(LinesOf(text)) : line.cr = 0

\* C7 as amended: the output holds no import or include directive; a second
\* run on it returns it unchanged when no line of the source or of a file
\* ends in a carriage return that is not part of a CRLF line ending.
C7_Amended ==
    /\ FirstRunDone => NoDirectiveLeft(runs[1].out)
    /\ (SecondRunDone /\ \A text \in TextsRead : NoStrayCr(text))
          => runs[2].out = runs[1].out

\* a second run over an expansion and a failed import
C7_Witness ==
    /\ SecondRunDone
    /\ has_lookup
    /\ \A text \in TextsRead : NoStrayCr(text)
    /\ Len(import_src) = 2
    /\ IsImport(LinesOf(import_src)[1]) /\ IsImport(LinesOf(import_src)[2])
    /\ files["a"].present /\ ~files["b"].present
    /\ Len(runs[1].out) > 3
    /\ runs[2].out = runs[1].out

\* no call is nested deeper than the maximum plus one, a call beyond the
\* maximum has read no line and holds no output
DepthBounded ==
    /\ Len(stack) <= MAX_RECURSION + 2
    /\ deepest_read <= MAX_RECURSION
    /\ \A i \in 1..Len(stack) :
         /\ stack[i].depth = i - 1
         /\ (stack[i].depth > MAX_RECURSION)
               => (stack[i].out = <<>> /\ stack[i].pos = 1)

\* C8: every run ends, on every source and lookup, cyclic ones included; no
\* line is read at a depth beyond the maximum, and a call beyond it returns
\* the empty text.
C8_Terminates ==
    /\ []DepthBounded
    /\ <>(stack = <<>> /\ SecondRunDone)

\* the names a text imports
ImportedBy(text) ==
    {ShaderName(line) : line \in {l \in SeqToSet(LinesOf(text)) : IsImport(l) /\ HasName(l)}}

\* file n imports file m, and the lookup knows both
Imports(n, m) ==
    /\ has_lookup
    /\ n \in DOMAIN files /\ m \in DOMAIN files
    /\ files[n].present /\ files[m].present
    /\ m \in ImportedBy(files[n].text)

RECURSIVE Reaches(_, _, _)
\* m is reached from n along at most k imports
Reaches(n, m, k) ==
    /\ k > 0
    /\ \/ Imports(n, m)
       \/ \E x \in DOMAIN files : Imports(n, x) /\ Reaches(x, m, k - 1)

OnCycle(n) == has_lookup /\ n \in DOMAIN files /\ Reaches(n, n, Cardinality(DOMAIN files))

\* the source imports a file that lies on an import cycle
CyclicRun ==
    \E n \in ImportedBy(import_src) :
        /\ has_lookup /\ n \in DOMAIN files /\ files[n].present
        /\ \E m \in DOMAIN files : (m = n \/ Reaches(n, m, Cardinality(DOMAIN files))) /\ OnCycle(m)

\* a cut-off call of a cyclic import graph
C8_Witness ==
    /\ CyclicRun
    /\ stack # <<>>
    /\ Top.depth > MAX_RECURSION

Max(S) == CHOOSE x \in S : \A y \in S : y <= x

\* the lines of the largest text read
PerFileSize == Max({Len(text) : text \in TextsRead})

\* C9 as stated: on a cyclic import graph the output has at most
\* (MAX_RECURSION + 1) levels of at most one file each, a line of a file
\* giving at most itself or two marker lines, whatever the number of import
\* lines of the files.
C9_AsStated ==
    (FirstRunDone /\ CyclicRun)
        => Len(runs[1].out) <= 3 * (MAX_RECURSION + 1) * PerFileSize

\* the output lines that line i of the call gave
Segment(out, cuts, i) ==
    SubSeq(out, (IF i = 1 THEN 0 ELSE cuts[i - 1]) + 1, cuts[i])

\* the import of the line fails: no lookup function, no name, or no content
Fails(line) ==
    /\ IsImport(line)
    /\ \/ ~has_lookup
       \/ ~HasName(line)
       \/ ShaderName(line) \notin DOMAIN files
       \/ ~files[ShaderName(line)].present

\* a comment line that records the failure for the directive line
IsFailureComment(raw, line) ==
    /\ raw.nl
    /\ Len(raw.toks) = Len(line.toks) + 2
    /\ raw.toks[1] = Word("//")
    /\ SubSeq(raw.toks, 2, Len(line.toks) + 1) = line.toks
    /\ raw.toks[Len(raw.toks)]
          = Word("// ERROR: Preprocessor could not include file, skipped")

\* the lines read of the call gave: a failing import exactly one failure
\* comment, a line that is no directive itself
LinesGave(all, out, cuts) ==
    \A i \in 1..Len(cuts) :
        LET seg == Segment(out, cuts, i) IN
        /\ Fails(all[i]) => (Len(seg) = 1 /\ IsFailureComment(seg[1], all[i]))
        /\ ~IsImport(all[i])
              => (Len(seg) = 1 /\ seg[1].toks = all[i].toks /\ seg[1].nl)

\* C10: in every call a failing import gives exactly one comment line that
\* records the failure, the lines after it are read as before, and the run
\* returns with every line of the source read.
C10_FailedImport ==
    /\ \A k \in 1..Len(stack) :
         LinesGave(stack[k].all, stack[k].out, stack[k].cuts)
    /\ FirstRunDone
          => /\ Len(runs[1].cuts) = Len(import_src)
             /\ LinesGave(LinesOf(import_src), runs[1].out, runs[1].cuts)
             /\ (\A i \in 1..Len(import_src) :
                    Fails(LinesOf(import_src)[i]) \/ ~IsImport(LinesOf(import_src)[i]))
                   => Len(runs[1].out) = Len(import_src)

\* a lookup that has no content for the name, a text line after the failure
C10_Witness ==
    /\ FirstRunDone
    /\ has_lookup
    /\ Len(import_src) = 2
    /\ Fails(LinesOf(import_src)[1])
    /\ HasName(LinesOf(import_src)[1])
    /\ import_src[2].toks = TextLine
    /\ Len(runs[1].out) = 2

(***************************************************************************)
(* C4, C5: get_bind_group_data.                                            *)
(***************************************************************************)
Returned == result[1] \in {"Ok", "DuplicateBinding", "NonConsecutiveBindGroups"}

\* the globals that carry a binding annotation
Annotated == {i \in 1..Len(global_variables) : HasBinding(global_variables[i])}

AnnotatedGroups == {BindingGroup(global_variables[i]) : i \in Annotated}

SameSlot(i, j) ==
    /\ BindingGroup(global_variables[i]) = BindingGroup(global_variables[j])
    /\ BindingIndex(global_variables[i]) = BindingIndex(global_variables[j])

\* the annotated globals that repeat the group and binding of an earlier one
Repeats == {j \in Annotated : \E i \in Annotated : i < j /\ SameSlot(i, j)}

\* the binding indices the module declares in group g, in module order
RECURSIVE DeclaredIn(_, _)
DeclaredIn(g, n) ==
    IF n = 0 THEN <<>>
    ELSE LET global == global_variables[n]
         IN  IF HasBinding(global) /\ BindingGroup(global) = g
             THEN Append(DeclaredIn(g, n - 1), BindingIndex(global))
             ELSE DeclaredIn(g, n - 1)

\* C4: the call returns Ok exactly when no binding is repeated and the group
\* indices of the annotated globals are 0 .. n-1, and NonConsecutiveBindGroups
\* exactly when none is repeated and they are not; an Ok map has the keys
\* 0 .. n-1 and holds the annotated globals only.
C4_ConsecutiveGroups ==
    Returned =>
        LET consecutive == AnnotatedGroups = 0..(Cardinality(AnnotatedGroups) - 1)
        IN  /\ (result[1] = "Ok") <=> (Repeats = {} /\ consecutive)
            /\ (result[1] = "NonConsecutiveBindGroups") <=> (Repeats = {} /\ ~consecutive)
            /\ (result[1] = "Ok") =>
                  /\ DOMAIN groups = AnnotatedGroups
                  /\ DOMAIN groups = 0..(Cardinality(DOMAIN groups) - 1)
                  /\ \A g \in DOMAIN groups :
                        groups[g] = DeclaredIn(g, Len(global_variables))
            /\ (Annotated = {}) => (result[1] = "Ok" /\ groups = NoGroups)

GroupsOfGlobals ==
    [i \in 1..Len(global_variables) |->
        IF HasBinding(global_variables[i]) THEN BindingGroup(global_variables[i]) ELSE -1]

\* groups 0, 1, 1, 2 were accepted
C4_Witness == result[1] = "Ok" /\ GroupsOfGlobals = <<0, 1, 1, 2>>

\* groups 0, 2 were refused, a global without annotation ignored
C4_WitnessRefused ==
    result[1] = "NonConsecutiveBindGroups" /\ GroupsOfGlobals = <<0, -1, 2>>

\* C5: the call returns DuplicateBinding exactly when two annotated globals
\* share group and binding index, with the binding index of the first global
\* that repeats an earlier one; in an Ok result the binding indices of each
\* group are pairwise distinct; a binding index used in two groups is no error.
C5_DuplicateBinding ==
    Returned =>
        /\ (result[1] = "DuplicateBinding") <=> (Repeats # {})
        /\ (result[1] = "DuplicateBinding") =>
              \E j \in Repeats :
                 /\ \A k \in Repeats : j <= k
                 /\ result[2] = BindingIndex(global_variables[j])
        /\ (result[1] = "Ok") =>
              \A g \in DOMAIN groups : \A i, j \in 1..Len(groups[g]) :
                 (i # j) => groups[g][i] # groups[g][j]

\* a binding index used in group 0 and group 1 and then repeated in group 1
C5_Witness ==
    /\ result = <<"DuplicateBinding", 1>>
    /\ global_variables = <<SomeBinding(0, 1), SomeBinding(1, 1), SomeBinding(1, 1)>>

(***************************************************************************)
(* C1: the body of an #ifdef KEY ... #endif block.                         *)
(***************************************************************************)
Conditionals == {"#ifdef", "#else", "#endif"}

\* lines i and j are the #ifdef KEY and the #endif of a block whose body
\* holds no conditional directive, both already processed
Block(i, j) ==
    /\ i < j
    /\ j <= Len(output)
    /\ Op(lines_read[i]) = "#ifdef"
    /\ HasKey(lines_read[i])
    /\ Op(lines_read[j]) = "#endif"
    /\ \A k \in (i + 1)..(j - 1) : Op(lines_read[k]) \notin Conditionals

Blocks == {b \in (1..Len(output)) \X (1..Len(output)) : Block(b[1], b[2])}

\* the body lines of the block: the lines between that are no directive
Body(b) == {k \in (b[1] + 1)..(b[2] - 1) : ~IsDirective(lines_read[k])}

KeyDefinedAt(i) == KeyOf(lines_read[i]) \in DOMAIN before[i].defs

TokensOf(line) == {line[n] : n \in 1..Len(line)}

\* the line is emitted as active text, unchanged except for substitution:
\* every word of it is a word of the source line, the value of a key defined
\* at the line or a resolved binding, and a line that names no defined key
\* and no symbolic binding is emitted as it is
EmittedActive(k) ==
    /\ ~output[k].commented
    /\ \A tok \in TokensOf(output[k].line) :
         \/ tok \in TokensOf(lines_read[k])
         \/ Tag(tok) = "res"
         \/ \E key \in DOMAIN before[k].defs : tok = Word(before[k].defs[key])
    /\ (\A tok \in TokensOf(lines_read[k]) :
            Tag(tok) = "w" /\ Text(tok) \notin DOMAIN before[k].defs)
         => output[k].line = lines_read[k]

\* the line is emitted as a comment that carries the source line
EmittedAsComment(k) ==
    /\ output[k].commented
    /\ \A tok \in TokensOf(lines_read[k]) :
         Tag(tok) = "w" => tok \in TokensOf(output[k].line)

\* C1 as stated: in every block, the body lines are comments when KEY was
\* not in the table at the #ifdef, and active text when it was.
C1_AsStated ==
    \A b \in Blocks : \A k \in Body(b) :
        IF KeyDefinedAt(b[1]) THEN EmittedActive(k) ELSE EmittedAsComment(k)

\* C1 as amended: in every block, the body lines are comments when KEY was
\* not in the table at the #ifdef; they are active text, unchanged except for
\* substitution, when KEY was in the table and the #ifdef itself was
\* processed while output was active.
C1_Amended ==
    \A b \in Blocks : \A k \in Body(b) :
        /\ ~KeyDefinedAt(b[1]) => EmittedAsComment(k)
        /\ (KeyDefinedAt(b[1]) /\ ~before[b[1]].skip) => EmittedActive(k)

\* a block whose key is defined, entered while output is active, with a body
\* line that substitution changes
C1_Witness ==
    \E b \in Blocks : \E k \in Body(b) :
        /\ KeyDefinedAt(b[1])
        /\ ~before[b[1]].skip
        /\ output[k].line # lines_read[k]

(***************************************************************************)
(* C2, C3: symbolic binding allocation.                                    *)
(***************************************************************************)
LabelOf(c)   == c[1]
GroupOf(c)   == c[2]
BindingOf(c) == c[3]

\* the occurrences of @group_binding(NAME) in the source read so far:
\* <<line, position in the line>>
Occurrences ==
    UNION {{<<i, j>> : j \in {k \in 1..Len(lines_read[i]) :
                                 Tag(lines_read[i][k]) = "gb"}} :
           i \in 1..Len(output)}

\* source order
Before(p, q) == p[1] < q[1] \/ (p[1] = q[1] /\ p[2] < q[2])

NameAt(p) == Text(lines_read[p[1]][p[2]])

\* what the occurrence was rewritten to
OutAt(p) == output[p[1]].line[p[2]]

FirstOfName(p) == \A q \in Occurrences : Before(q, p) => NameAt(q) # NameAt(p)

NamesBefore(p) == {NameAt(q) : q \in {r \in Occurrences : Before(r, p)}}

SameNameBefore(p) == {q \in Occurrences : Before(q, p) /\ NameAt(q) = NameAt(p)}

PairAt(p) == <<OutAt(p)[3], OutAt(p)[4]>>

\* the occurrences the pass rewrote to a (group, binding) pair
Rewritten == {p \in Occurrences : Tag(OutAt(p)) = "res"}

\* C2 as stated: the first occurrence of a name receives the next unused
\* group (the number of names seen before it) with binding 0, a later
\* occurrence the group of the earlier ones and, as binding, the number of
\* earlier occurrences of the name; no two occurrences receive the same pair.
C2_AsStated ==
    /\ \A p \in Rewritten :
         /\ FirstOfName(p) => PairAt(p) = <<Cardinality(NamesBefore(p)), 0>>
         /\ \A q \in SameNameBefore(p) \cap Rewritten : OutAt(q)[3] = OutAt(p)[3]
         /\ OutAt(p)[4] = Cardinality(SameNameBefore(p))
    /\ \A p, q \in Rewritten : (p # q) => PairAt(p) # PairAt(q)

\* the source of five lines, one occurrence each: X, X, X, Y, X
XXXYX == << <<Gb("X")>>, <<Gb("X")>>, <<Gb("X")>>, <<Gb("Y")>>, <<Gb("X")>> >>

OutLines == [i \in 1..Len(output) |-> output[i].line]

\* C3 as stated: after X, X, X, Y, X the occurrences of X hold group 0 with
\* the bindings 0, 1, 3 and Y holds group 1 binding 0.
C3_AsStated ==
    (lines_read = XXXYX)
        => /\ {PairAt(p) : p \in {q \in Occurrences : NameAt(q) = "X"}}
                = {<<0, 0>>, <<0, 1>>, <<0, 3>>}
           /\ {PairAt(p) : p \in {q \in Occurrences : NameAt(q) = "Y"}}
                = {<<1, 0>>}

\* C3 as amended: after X, X, X, Y, X the four occurrences of X hold group 0
\* with the bindings 0, 1, 2 and (the one after Y) 3, and Y holds group 1
\* binding 0.
C3_Amended ==
    (lines_read = XXXYX)
        => OutLines = << <<Resolved(0, 0)>>, <<Resolved(0, 1)>>, <<Resolved(0, 2)>>,
                         <<Resolved(1, 0)>>, <<Resolved(0, 3)>> >>

C3_Witness == lines_read = XXXYX /\ Len(output) = Len(XXXYX)

(***************************************************************************)
(* C11, C19: wgsl.rs.                                                      *)
(***************************************************************************)
\* C11: a storage buffer is read-only exactly when its access lacks STORE,
\* whatever its other flags; a uniform buffer is Uniform.
C11_ReadOnly ==
    binding_type # NotCalled =>
        /\ storage.space = "Storage"
              => binding_type = <<"Storage", ~("STORE" \in storage.access)>>
        /\ storage = AddressSpace("Storage", {"LOAD"}) => binding_type = <<"Storage", TRUE>>
        /\ storage = AddressSpace("Storage", {"LOAD", "STORE"})
              => binding_type = <<"Storage", FALSE>>
        /\ storage = AddressSpace("Storage", {"STORE"}) => binding_type = <<"Storage", FALSE>>
        /\ storage.space = "Uniform" => binding_type = <<"Uniform", FALSE>>

\* a write-only storage buffer classified
C11_Witness ==
    /\ storage = AddressSpace("Storage", {"STORE"})
    /\ binding_type = <<"Storage", FALSE>>

\* the components of the type
Components(t) == IF t.inner = "Scalar" THEN 1 ELSE t.size

IsInteger(t) == t.kind \in {"Sint", "Uint"}

\* the format of the kind, width and component count of the type
SameShape(t) == <<t.kind, 8 * t.width, Components(t)>>

\* C19 as stated: every integer vector of width 1 or 2 has a format.
C19_AsStated ==
    (format # NoFormat /\ ty.inner = "Vector" /\ IsInteger(ty) /\ ty.width \in {1, 2})
        => format = SameShape(ty)

\* the combinations that have a format
Mapped(t) ==
    /\ t.inner \in {"Scalar", "Vector"}
    /\ \/ t.kind \in {"Sint", "Uint", "Float"} /\ t.width = 4
       \/ t.kind = "Float" /\ t.width = 8
       \/ t.inner = "Vector" /\ t.size \in {2, 4} /\ IsInteger(t) /\ t.width \in {1, 2}

\* C19 as amended: width 4 of a signed, unsigned or float kind maps to the
\* 32-bit format of the kind and component count, float of width 8 to the
\* 64-bit one, an integer vector of width 1 or 2 with two or four components
\* to the 8-bit or 16-bit one; every other combination, the integer vectors
\* of three components of width 1 or 2 among them, is fatal.
C19_Amended ==
    format # NoFormat =>
        IF Mapped(ty) THEN format = SameShape(ty) ELSE format = TodoFormat

\* a narrow integer vector of four components formatted
C19_Witness ==
    /\ ty = Type("Vector", 4, "Uint", 2)
    /\ format = <<"Uint", 16, 4>>

(***************************************************************************)
(* C12: structs_items.                                                     *)
(***************************************************************************)
\* type a refers to type b: as the base of a pointer, an array or a binding
\* array, or as a member of a struct
RefersTo(a, b) ==
    /\ naga_module.types[a].inner \in {"Pointer", "Array", "BindingArray", "Struct"}
    /\ \E i \in 1..Len(naga_module.types[a].bases) : naga_module.types[a].bases[i] = b

RECURSIVE ReachesType(_, _, _)
\* b is reached from a along at most k references
ReachesType(a, b, k) ==
    \/ a = b
    \/ k > 0 /\ \E x \in 1..Len(naga_module.types) : RefersTo(a, x) /\ ReachesType(x, b, k - 1)

\* the type is reached from the type of some global variable
FromGlobal(h) ==
    \E i \in 1..Len(naga_module.global_variables) :
        ReachesType(naga_module.global_variables[i], h, Len(naga_module.types))

\* the structs without a custom mapping
PlainStructs ==
    {h \in 1..Len(naga_module.types) :
        naga_module.types[h].inner = "Struct" /\ h \notin type_map}

\* the struct is the type of an argument of an entry point and of no result
ArgumentOnly(h) ==
    /\ \E e \in naga_module.entry_points : e.argument = h
    /\ ~(\E e \in naga_module.entry_points : e.result = h)

\* C12: every struct built is marked host-shareable exactly when it is
\* reached from the type of a global variable; a struct reached from a
\* global is built and marked, and a struct that is only the argument of an
\* entry point is built and not marked.
C12_HostShareable ==
    struct_items[1] =>
        /\ \A item \in struct_items[2] : item[2] = FromGlobal(item[1])
        /\ \A h \in PlainStructs :
              /\ FromGlobal(h) => <<h, TRUE>> \in struct_items[2]
              /\ (ArgumentOnly(h) /\ ~FromGlobal(h)) => <<h, FALSE>> \in struct_items[2]

\* a struct nested in the type of a global, and a struct that is only an
\* argument of the entry point
C12_Witness ==
    /\ struct_items[1]
    /\ \E h \in PlainStructs :
          /\ <<h, TRUE>> \in struct_items[2]
          /\ \A i \in 1..Len(naga_module.global_variables) :
                naga_module.global_variables[i] # h
    /\ \E h \in PlainStructs : ArgumentOnly(h) /\ <<h, FALSE>> \in struct_items[2]

(***************************************************************************)
(* C13: generate_output over several shaders.                              *)
(***************************************************************************)
\* a shader has been entered and none of its lines read
AtModuleStart == shader_pos > Len(entry_results) /\ lines_read = <<>>

LinesRead == 1..Len(lines_read)

\* the lines read that have given a line of output
LinesWritten == 1..Len(output)

\* C14 as stated: once an `#import` line has been read, the pass has aborted.
C14_AsStated ==
    (\E i \in LinesRead : Op(lines_read[i]) = "#import") => panicked

\* the directives the pass resolves
Resolved5 == {"#ifdef", "#else", "#endif", "#define", "#undef"}

\* the outcomes a comment can carry
Outcomes == {" (true)", " (false)"}

\* C15: every `#ifdef`, `#else`, `#endif`, `#define` and `#undef` line is
\* written as a comment that carries the line, whether output is active or
\* suppressed; the comment of an `#ifdef KEY` read while active carries
\* "(true)" when KEY is in the table and "(false)" when not, the comment of an
\* `#else` carries one of the two.
C15_DirectivesCommented ==
    \A i \in LinesWritten :
        Op(lines_read[i]) \in Resolved5 =>
            /\ output[i].commented
            /\ output[i].line = lines_read[i]
            /\ (Op(lines_read[i]) = "#ifdef" /\ HasKey(lines_read[i]) /\ ~before[i].skip)
                  => output[i].reason = (IF KeyDefinedAt(i) THEN " (true)" ELSE " (false)")
            /\ Op(lines_read[i]) = "#else" => output[i].reason \in Outcomes

\* a `#define` read while active and one read while suppressed, an `#ifdef`
\* with its outcome
C15_Witness ==
    /\ Len(output) >= 3
    /\ \E i \in LinesWritten : Op(lines_read[i]) = "#define" /\ ~before[i].skip
    /\ \E i \in LinesWritten : Op(lines_read[i]) = "#define" /\ before[i].skip
    /\ \E i \in LinesWritten : Op(lines_read[i]) = "#ifdef" /\ output[i].reason = " (false)"

\* C16 as stated: an `#ifndef` line is written as a comment, not as text.
C16_AsStated ==
    \A i \in LinesWritten : Op(lines_read[i]) = "#ifndef" => output[i].commented

\* an `#ifdef KEY` that no later `#endif` follows
Unclosed(i) ==
    /\ Op(lines_read[i]) = "#ifdef"
    /\ HasKey(lines_read[i])
    /\ \A j \in (i + 1)..Len(lines_read) : Op(lines_read[j]) \notin {"#endif", "#else"}

\* C17 as stated: when the input ended after an `#ifdef` without `#endif`,
\* the depth returned is not 0 and the warning is printed.
C17_AsStated ==
    (ifdef_result[1] /\ \E i \in LinesRead : Unclosed(i))
        => (ifdef_result[2] # 0 /\ ifdef_result[3])

\* C17 as amended: when the input ended after an `#ifdef KEY` without
\* `#endif` or `#else` whose KEY was not in the table or which was read in a
\* suppressed region, the depth returned is not 0 and the warning is
\* printed; the warning is printed exactly when the depth returned is not 0,
\* and every line read has given its line of the output returned.
C17_Amended ==
    ifdef_result[1] =>
        /\ (\E i \in LinesRead : Unclosed(i) /\ (before[i].skip \/ ~KeyDefinedAt(i)))
              => (ifdef_result[2] # 0 /\ ifdef_result[3])
        /\ ifdef_result[2] = depth
        /\ ifdef_result[3] = (depth # 0)
        /\ Len(output) = Len(lines_read)

\* a suppressed region left open at the end of the input
C17_Witness ==
    /\ ifdef_result = <<TRUE, 1, TRUE>>
    /\ Len(lines_read) = 3
    /\ lines_read[2] = <<Word("#ifdef"), Word("B")>>
    /\ ~before[2].skip
    /\ Len(output) = 3

\* the table after line i
DefsAfter(i) == IF i < Len(lines_read) THEN before[i + 1].defs ELSE defs

\* C20 as stated: a `#define KEY` read while output is suppressed puts KEY
\* into the table, a `#undef KEY` takes it out.
C20_AsStated ==
    \A i \in LinesWritten :
        (before[i].skip /\ HasKey(lines_read[i])) =>
            /\ Op(lines_read[i]) = "#define" => KeyOf(lines_read[i]) \in DOMAIN DefsAfter(i)
            /\ Op(lines_read[i]) = "#undef" => KeyOf(lines_read[i]) \notin DOMAIN DefsAfter(i)

\* C20 as amended: a `#define` or `#undef` line read while output is
\* suppressed does not execute: the table is the same after the line, and so
\* is every later `#ifdef` test and substitution; read while output is
\* active, `#define KEY [VALUE]` puts KEY with VALUE into the table and
\* `#undef KEY` takes it out.
C20_Amended ==
    \A i \in LinesWritten :
        (Op(lines_read[i]) \in {"#define", "#undef"} /\ HasKey(lines_read[i])) =>
            IF before[i].skip
            THEN DefsAfter(i) = before[i].defs
            ELSE IF Op(lines_read[i]) = "#define"
                 THEN /\ KeyOf(lines_read[i]) \in DOMAIN DefsAfter(i)
                      /\ DefsAfter(i)[KeyOf(lines_read[i])] = ValOf(lines_read[i])
                 ELSE KeyOf(lines_read[i]) \notin DOMAIN DefsAfter(i)

\* a `#define B` in a suppressed region, the region ended by `#endif`, and
\* an `#ifdef B` after it that finds B undefined
C20_Witness ==
    /\ Len(output) = 4
    /\ defs = EmptyMap
    /\ lines_read = << <<Word("#ifdef"), Word("B")>>, <<Word("#define"), Word("B")>>,
                       <<Word("#endif")>>, <<Word("#ifdef"), Word("B")>> >>
    /\ before[2].skip /\ ~before[4].skip
    /\ output[4].reason = " (false)"

(***************************************************************************)
(* C18: pipeline_overridable_constants.                                    *)
(***************************************************************************)
\* the key of the claim: the id in decimal when there is one, else the name
KeyOfOverride(o) == IF o.id[1] THEN ToString(o.id[2]) ELSE o.name

\* the number a supplied value is entered as
EnteredAs(o) == IF o.bool THEN (IF o.flag THEN 1 ELSE 0) ELSE o.number

\* C18: the map returned holds, under the id of the constant or under its
\* name when it has no id, an entry for every constant without default, and
\* for a constant with default exactly when the caller supplied a value; a
\* bool is entered as 1 or 0; the map holds nothing else.
C18_OverrideMap ==
    entries[1] =>
        /\ \A i \in 1..Len(overrides) :
              LET o == overrides[i] IN
              /\ ~o.init => KeyOfOverride(o) \in DOMAIN entries[2]
              /\ o.init => (KeyOfOverride(o) \in DOMAIN entries[2] <=> o.supplied)
              /\ KeyOfOverride(o) \in DOMAIN entries[2]
                    => entries[2][KeyOfOverride(o)] = EnteredAs(o)
        /\ DOMAIN entries[2] \subseteq {KeyOfOverride(overrides[i]) : i \in 1..Len(overrides)}

\* a required bool with an id and an omitted optional constant without id
C18_Witness ==
    /\ entries[1]
    /\ Len(overrides) = 2
    /\ overrides[1].id = <<TRUE, 1>> /\ ~overrides[1].init
    /\ overrides[1].bool /\ overrides[1].flag
    /\ overrides[2].id = <<FALSE, 0>> /\ overrides[2].init /\ ~overrides[2].supplied
    /\ DOMAIN entries[2] = {"1"}
    /\ entries[2]["1"] = 1

(***************************************************************************)
(* C21 - C23, C27, C28, C30: preprocess_resolve_ifdefs.                    *)
(***************************************************************************)
\* lines i, j and k are an `#ifdef KEY`, its `#else` and its `#endif`, with
\* no other conditional directive between them, all already processed
ElseBlock(i, j, k) ==
    /\ i < j /\ j < k
    /\ k <= Len(output)
    /\ Op(lines_read[i]) = "#ifdef" /\ HasKey(lines_read[i])
    /\ Op(lines_read[j]) = "#else"
    /\ Op(lines_read[k]) = "#endif"
    /\ \A m \in ((i + 1)..(k - 1)) \ {j} : Op(lines_read[m]) \notin Conditionals

\* C21 as stated: after an `#ifdef KEY` read while active whose KEY was
\* defined, the lines between the `#else` and the `#endif` are suppressed.
C21_AsStated ==
    \A i \in LinesWritten : \A j \in LinesWritten : \A k \in LinesWritten :
        (ElseBlock(i, j, k) /\ ~before[i].skip /\ KeyDefinedAt(i))
            => \A m \in (j + 1)..(k - 1) :
                  ~IsDirective(lines_read[m]) => output[m].commented

\* a stack of condition frames, one per open `#ifdef`: whether the branch
\* being read is the true one, and whether its `#else` has been read
RefPush(st, cond) ==
    [st EXCEPT !.frames = Append(st.frames, [active |-> cond, else_seen |-> FALSE])]

RefToggle(st) ==
    LET n == Len(st.frames) IN
    IF n = 0 \/ st.frames[n].else_seen THEN [st EXCEPT !.ok = FALSE]
    ELSE [st EXCEPT !.frames[n] = [active |-> ~st.frames[n].active, else_seen |-> TRUE]]

RefPop(st) ==
    IF st.frames = <<>> THEN [st EXCEPT !.ok = FALSE]
    ELSE [st EXCEPT !.frames = SubSeq(st.frames, 1, Len(st.frames) - 1)]

RECURSIVE RefAfter(_)
\* the stack after the first n lines read; ok is FALSE once the lines are
\* not well nested
RefAfter(n) ==
    IF n = 0 THEN [ok |-> TRUE, frames |-> <<>>]
    ELSE LET st == RefAfter(n - 1)
             op == Op(lines_read[n])
         IN  CASE op = "#ifdef" ->
                    (IF HasKey(lines_read[n]) THEN RefPush(st, KeyDefinedAt(n))
                     ELSE [st EXCEPT !.ok = FALSE])
               [] op = "#else" -> RefToggle(st)
               [] op = "#endif" -> RefPop(st)
               [] op \in {"#ifndef", "#import"} -> [st EXCEPT !.ok = FALSE]
               [] OTHER -> st

\* the input read is well nested: every `#ifdef KEY` closed by one `#endif`,
\* at most one `#else` per level
WellNested ==
    RefAfter(Len(lines_read)).ok /\ RefAfter(Len(lines_read)).frames = <<>>

\* the stack decides that line i is active: every open frame is in its true
\* branch
StackActive(i) ==
    \A f \in 1..Len(RefAfter(i - 1).frames) : RefAfter(i - 1).frames[f].active

\* the lines that are no conditional directive
Plain(i) == Op(lines_read[i]) \notin Conditionals

\* C22 as stated: on a well-nested input the counter and flag suppress a line
\* exactly when the stack of condition frames does.
C22_AsStated ==
    (ifdef_result[1] /\ WellNested)
        => \A i \in LinesWritten : Plain(i) => (before[i].skip <=> ~StackActive(i))

\* line i is an `#ifdef KEY` read while output was active
ActiveIfdef(i) ==
    Op(lines_read[i]) = "#ifdef" /\ HasKey(lines_read[i]) /\ ~before[i].skip

RECURSIVE ActiveIfdefKeys(_)
\* the keys of the `#ifdef KEY` lines read while active among the first n
\* lines, in source order
ActiveIfdefKeys(n) ==
    IF n = 0 THEN <<>>
    ELSE ActiveIfdefKeys(n - 1)
            \o (IF ActiveIfdef(n) THEN <<KeyOf(lines_read[n])>> ELSE <<>>)

\* depth and skip after line i
DepthAfter(i) == IF i < Len(lines_read) THEN before[i + 1].depth ELSE depth
SkipAfter(i) == IF i < Len(lines_read) THEN before[i + 1].skip ELSE should_skip

\* C23: the observer has been called once with the key of every `#ifdef KEY`
\* read while active, in source order, whether or not the key is defined,
\* and for no other line; after such a line output is suppressed with depth
\* one larger when the key was absent, and active with the same depth when it
\* was present.
C23_Observer ==
    /\ ifdef_seen = ActiveIfdefKeys(Len(lines_read))
    /\ \A i \in LinesWritten :
          ActiveIfdef(i) =>
              IF KeyDefinedAt(i)
              THEN DepthAfter(i) = before[i].depth /\ ~SkipAfter(i)
              ELSE DepthAfter(i) = before[i].depth + 1 /\ SkipAfter(i)

\* an `#ifdef` of a defined key, one of an undefined key, and one inside the
\* suppressed region the second opens
C23_Witness ==
    /\ Len(lines_read) = 3
    /\ lines_read[1] = <<Word("#ifdef"), Word("A")>> /\ KeyDefinedAt(1)
    /\ lines_read[2] = <<Word("#ifdef"), Word("B")>>
    /\ lines_read[3] = <<Word("#ifdef"), Word("A")>>
    /\ ifdef_seen = <<"A", "B">>
    /\ depth = 2 /\ should_skip

\* the first occurrence of the name of p
FirstOccurrence(p) ==
    CHOOSE q \in Occurrences : NameAt(q) = NameAt(p) /\ FirstOfName(q)

\* C27: every `@group_binding(NAME)` line is rewritten, in a suppressed
\* region (where it is written as a comment) as on an active line: its group
\* is the number of names that occur before the first occurrence of NAME and
\* its binding the number of earlier occurrences of NAME, the occurrences in
\* suppressed regions counted like the others.
C27_RewriteInSuppressed ==
    \A p \in Occurrences :
        /\ Tag(OutAt(p)) = "res"
        /\ PairAt(p) = <<Cardinality(NamesBefore(FirstOccurrence(p))),
                         Cardinality(SameNameBefore(p))>>
        /\ output[p[1]].commented = before[p[1]].skip

\* X is first used in a suppressed region, Y after it, and X again on an
\* active line
C27_Witness ==
    /\ lines_read = << <<Word("#ifdef"), Word("B")>>, <<Gb("X")>>, <<Word("#endif")>>,
                       <<Gb("Y")>>, <<Gb("X")>> >>
    /\ Len(output) = 5
    /\ output[2].commented /\ output[2].line = <<Resolved(0, 0)>>
    /\ ~output[4].commented /\ output[4].line = <<Resolved(1, 0)>>
    /\ ~output[5].commented /\ output[5].line = <<Resolved(0, 1)>>

\* C28: before every line and after the last one output is suppressed
\* exactly when depth is above 0, so that depth is 0 while output is active,
\* and the depth returned is not 0 exactly when the input ended in a
\* suppressed region.
C28_SkipIffDepth ==
    /\ should_skip <=> depth > 0
    /\ \A i \in LinesRead : before[i].skip <=> before[i].depth > 0
    /\ ifdef_result[1] => (ifdef_result[2] # 0 <=> should_skip)

\* the input ended in a region nested in a suppressed region, after an
\* earlier region was closed
C28_Witness ==
    /\ ifdef_result = <<TRUE, 2, TRUE>>
    /\ should_skip
    /\ Len(lines_read) = 4
    /\ before[2].skip /\ ~before[3].skip

\* the input read has no `#else`, `#define` or `#undef` line
OnlyIfdefEndif ==
    \A i \in LinesRead :
        Op(lines_read[i]) \notin {"#else", "#define", "#undef", "#undefine"}

\* C30: on a well-nested input of `#ifdef KEY` / `#endif` pairs with no
\* `#else`, `#define` or `#undef`, a line that is no directive is written as
\* active text exactly when the key of every enclosing `#ifdef` is in the
\* table, and as a comment otherwise, at any nesting depth.
C30_NestedIfdef ==
    (ifdef_result[1] /\ WellNested /\ OnlyIfdefEndif)
        => \A i \in LinesWritten :
              ~IsDirective(lines_read[i])
                  => (output[i].commented <=> ~StackActive(i))

\* a block of a defined key nested in one of an undefined key: the line after
\* the inner `#endif` is still a comment
C30_Witness ==
    /\ ifdef_result[1] /\ WellNested /\ OnlyIfdefEndif
    /\ Len(lines_read) = 5
    /\ lines_read[1] = <<Word("#ifdef"), Word("B")>>
    /\ lines_read[2] = <<Word("#ifdef"), Word("A")>> /\ KeyDefinedAt(2)
    /\ lines_read[3] = <<Word("#endif")>>
    /\ lines_read[4] = <<Word("A"), Word("w")>>
    /\ lines_read[5] = <<Word("#endif")>>
    /\ output[4].commented
    /\ ~StackActive(4)

(***************************************************************************)
(* C29: fully_preprocess.                                                  *)
(***************************************************************************)
\* the first token of the line is the directive `#import`
FirstTokenImport(toks) ==
    Len(toks) > 0 /\ Tag(toks[1]) = "w" /\ Text(toks[1]) = "#import"

\* C29: fully_preprocess never reaches the panic "imports should have already
\* been resolved": with or without a lookup, and with import cycles cut off
\* at the ceiling, no line of the text handed from the import pass to the
\* conditional pass has `#import` as its first token.
C29_NoImportLeft ==
    /\ ~panicked
    /\ Len(runs) = 1
          => \A i \in 1..Len(runs[1].out) : ~FirstTokenImport(runs[1].out[i].toks)

\* a file that imports itself has been cut off at the ceiling, and the
\* conditional pass has read all of the text and returned
C29_Witness ==
    /\ has_lookup
    /\ deepest_read = MAX_RECURSION
    /\ Len(runs) = 1
    /\ ifdef_result[1]
    /\ ~panicked
    /\ Len(lines_read) = Len(runs[1].out)
    /\ \E i \in 1..Len(lines_read) :
          /\ Len(lines_read[i]) >= 2
          /\ lines_read[i][2] = Word("#import")
          /\ ~output[i].commented

(***************************************************************************)
(* C24: add_types_recursive on a recursive type graph.                     *)
(***************************************************************************)
\* a type is the type of two of the active calls: the walk is in a cycle
WalkOnCycle ==
    \E i \in 1..Len(walk_stack) : \E j \in 1..Len(walk_stack) :
        i < j /\ walk_stack[i].ty = walk_stack[j].ty

\* the stack runs out only in a walk that is in a cycle
OverflowOnlyOnCycle == walk_status = "overflow" => WalkOnCycle

Classified == layout_entry # NotClassified

\* C26: a scalar, struct or array gives a buffer binding, Uniform or Storage
\* by its address space; an image gives a texture binding for the classes
\* Sampled and Depth and a storage texture binding for the class Storage; a
\* sampler gives Comparison when declared as a comparison sampler and
\* Filtering otherwise; every other shape panics and gives no entry, and so
\* do the address spaces, sample kinds and accesses that have no arm.
C26_Classification ==
    Classified =>
        LET b == group_binding IN
        CASE b.inner \in {"Scalar", "Struct", "Array"} ->
                (CASE b.address_space.space = "Uniform" ->
                          layout_entry = <<"Buffer", <<"Uniform", FALSE>>>>
                   [] b.address_space.space = "Storage" ->
                          /\ layout_entry[1] = "Buffer"
                          /\ layout_entry[2][1] = "Storage"
                   [] OTHER -> layout_entry[1] = "panic")
          [] b.inner = "Image" ->
                (CASE b.class.class = "Sampled" /\ b.class.kind \in {"Sint", "Uint", "Float"} ->
                          layout_entry = <<"Texture", b.class.kind, b.dim, b.class.multi>>
                   [] b.class.class = "Depth" ->
                          layout_entry = <<"Texture", "Depth", b.dim, b.class.multi>>
                   [] b.class.class = "Storage" /\ b.class.access # {} ->
                          /\ layout_entry[1] = "StorageTexture"
                          /\ layout_entry[3] = b.dim
                   [] OTHER -> layout_entry[1] = "panic")
          [] b.inner = "Sampler" ->
                layout_entry = <<"Sampler", IF b.comparison THEN "Comparison" ELSE "Filtering">>
          [] OTHER -> layout_entry[1] = "panic"

\* a uniform vector: the call has panicked
C26_Witness ==
    /\ group_binding.inner = "Vector"
    /\ group_binding.address_space.space = "Uniform"
    /\ layout_entry = <<"panic", "Failed to generate BindingType.">>

(***************************************************************************)
(* C25: get_vertex_input_structs and vertex_states.                        *)
(***************************************************************************)
\* seq lists Val(p) for exactly the positions p of S, in increasing order
ListsInOrder(seq, S, Val(_)) ==
    \E f \in [1..Len(seq) -> S] :
        /\ \A p \in S : \E k \in 1..Len(seq) : f[k] = p
        /\ \A k \in 1..Len(seq) : \A l \in 1..Len(seq) : k < l => f[k] < f[l]
        /\ \A k \in 1..Len(seq) : seq[k] = Val(f[k])

VertexPositions ==
    {i \in 1..Len(vertex_module.entry_points) : vertex_module.entry_points[i].stage = "Vertex"}

\* entry point i is the first of vertex stage
IsFirstVertex(i) == i \in VertexPositions /\ \A j \in VertexPositions : i <= j

\* the arguments of entry point i that have no binding and are a struct
StructPositions(i) ==
    LET arguments == vertex_module.entry_points[i].arguments IN
    {p \in 1..Len(arguments) :
        ~arguments[p].bound /\ vertex_module.types[arguments[p].ty].inner = "Struct"}

\* the members of struct h that carry a location
LocatedPositions(h) ==
    {q \in 1..Len(vertex_module.types[h].members) :
        vertex_module.types[h].members[q].binding[1] = "Location"}

\* the module has passed validation: every member of a struct argument of an
\* entry point carries a binding
MembersBound ==
    \A i \in 1..Len(vertex_module.entry_points) : \A p \in StructPositions(i) :
        \A q \in 1..Len(vertex_module.types[vertex_module.entry_points[i].arguments[p].ty].members) :
            vertex_module.types[vertex_module.entry_points[i].arguments[p].ty].members[q].binding[1] # "None"

\* `inputs` is one layout per struct argument without binding of entry point
\* i, in argument order, each listing in member order the members that carry
\* a location
LayoutsOf(inputs, i) ==
    LET arguments == vertex_module.entry_points[i].arguments IN
    /\ ListsInOrder([k \in 1..Len(inputs) |-> inputs[k].item], StructPositions(i),
                    LAMBDA p : arguments[p].ty)
    /\ \A k \in 1..Len(inputs) :
          ListsInOrder(inputs[k].fields, LocatedPositions(inputs[k].item),
                       LAMBDA q : <<vertex_module.types[inputs[k].item].members[q].binding[2],
                                    vertex_module.types[inputs[k].item].members[q]>>)

=============================================================================
